---- MODULE Spec2Model ----
(***************************************************************************)
(* Verification model of the video ingestion pipeline.                     *)
(*                                                                         *)
(*   - the S3 input manager (listPendingVideos, moveToProcessing,          *)
(*     downloadVideo, moveToCompleted, moveToFailed) and the drivers       *)
(*     runS3Pipeline / runS3PollingMode that use it;                       *)
(*   - the per-video orchestrators processVideo,                           *)
(*     processVideoWithoutExercises and processVideoTranscriptionOnly,     *)
(*     with prepareVideoOutputs and saveVideoData;                         *)
(*   - the translator (translateTranscription, translateChunkWithGemini);  *)
(*   - the validators of types/dataTypes.js;                               *)
(*   - analyzeText and generateExercises;                                  *)
(*   - the segmenter (normalizeWordEntries, groupWordEntries);             *)
(*   - runMigrations over migrations.sql;                                  *)
(*   - the connection of database/db.js (getConnection, closeConnection);  *)
(*   - runRussianAudioBatchTranscription and the settings it changes.      *)
(*                                                                         *)
(* Every await of the JavaScript source is a point where other callbacks  *)
(* (a second worker, the interval timer, a signal handler) may run, so     *)
(* every awaited call is an action of its own.                             *)
(***************************************************************************)
EXTENDS Integers, Sequences, FiniteSets, TLC

VARIABLES
    bucket,         \* the input bucket: present key -> [id, size]
    faults,         \* the store's requests may fail for reasons of its own
    proc,           \* one record per invocation of the per-pass code
    mode,           \* "batch" (runS3Pipeline) or "poll" (runS3PollingMode)
    isProcessing,   \* runS3PollingMode: the lock flag
    mainpc,         \* runS3PollingMode: position of the function body
    intervalArmed,  \* runS3PollingMode: setInterval is active
    handlerOn,      \* runS3PollingMode: the SIGINT listener is registered
    sigpc,          \* the SIGINT listener's position
    dbOpen,         \* the database connection is open
    exited,         \* the operating-system process has ended
    ticks,          \* number of timer ticks delivered so far
    dropped,        \* number of ticks that found isProcessing set
    pv,             \* one invocation of a per-video orchestrator
    tr,             \* one invocation of translateTranscription
    llm,            \* one invocation of analyzeText or generateExercises
    val,            \* a value handed to the validators of dataTypes.js
    grp,            \* one invocation of buildTranscriptionVariants
    mig,            \* the database schema and one run of runMigrations
    dbc,            \* the connection of database/db.js and one batch pass
    rus             \* config.transcription and one run of
                    \* runRussianAudioBatchTranscription

drvVars == <<bucket, faults, proc, mode, isProcessing, mainpc, intervalArmed,
             handlerOn, sigpc, dbOpen, exited, ticks, dropped>>
pvVars == <<pv>>
libVars == <<tr, llm, val, grp, mig, dbc, rus>>
vars == <<drvVars, pvVars, libVars>>

\* A component that is not running.
NotRunning == [pc |-> "idle"]

\* Every library component but the named one is not running.
IdleLib(except) ==
    /\ except = "tr" \/ tr = NotRunning
    /\ except = "llm" \/ llm = NotRunning
    /\ except = "val" \/ val = NotRunning
    /\ except = "grp" \/ grp = NotRunning
    /\ except = "mig" \/ mig = NotRunning
    /\ except = "dbc" \/ dbc = NotRunning
    /\ except = "rus" \/ rus = NotRunning

(***************************************************************************)
(* Bounds of the model.                                                    *)
(***************************************************************************)
MaxVideos == 2
MaxSharedVideos == 1
MaxTicks == 3
MaxPolledVideos == 1

(***************************************************************************)
(* Object keys.  A key <<prefix, dir, name>> stands for the string         *)
(* prefix + dir + name; path.basename keeps the name.                     *)
(***************************************************************************)
pendingPrefix == "pending/"
processingPrefix == "processing/"
completedPrefix == "completed/"
failedPrefix == "failed/"
Prefixes == {pendingPrefix, processingPrefix, completedPrefix, failedPrefix}
Dirs == {"", "sub/"}
Names == {"a.mp4", "b.mp4", "c.txt", "z.mp4"}
Keys == Prefixes \X Dirs \X Names

Key(p, d, n) == <<p, d, n>>
NoKey == <<"", "", "">>

\* path.basename(key)
Basename(k) == k[3]

\* path.join(prefix, fileName).replace(/\\/g, '/')
JoinKey(prefix, fileName) == Key(prefix, "", fileName)

\* path.extname(name).toLowerCase()
ExtName(n) ==
    CASE n = "a.mp4" -> ".mp4"
      [] n = "b.mp4" -> ".mp4"
      [] n = "z.mp4" -> ".mp4"
      [] n = "c.txt" -> ".txt"
      [] OTHER -> ""

videoExtensions == {".mp4", ".mov", ".avi", ".mkv", ".webm"}

\* The store lists keys in lexicographic order of the whole key string.
\* ("pending/sub/..." sorts after "pending/c.txt" and before
\* "pending/z.mp4").
KeyRank(k) ==
    LET nameRank == CASE k[3] = "a.mp4" -> 1
                      [] k[3] = "b.mp4" -> 2
                      [] k[3] = "c.txt" -> 3
                      [] k[3] = "z.mp4" -> 4
                      [] OTHER -> 0
    IN IF k[2] # "" THEN 3 + nameRank
       ELSE IF k[3] = "z.mp4" THEN 8
       ELSE nameRank

Exists(b, k) == k \in DOMAIN b

RECURSIVE SortedByRank(_)
SortedByRank(S) ==
    IF S = {} THEN <<>>
    ELSE LET m == CHOOSE x \in S : \A y \in S : KeyRank(x) <= KeyRank(y)
         IN <<m>> \o SortedByRank(S \ {m})

\* S3InputManager.listPendingVideos: the value returned when the request
\* succeeds.
ListingOf(b) ==
    LET contents == {k \in DOMAIN b : k[1] = pendingPrefix}
        kept == {k \in contents :
                    ExtName(k[3]) \in videoExtensions /\ b[k].size > 0}
        sorted == SortedByRank(kept)
    IN [i \in 1..Len(sorted) |->
            [key |-> sorted[i], name |-> Basename(sorted[i])]]

(***************************************************************************)
(* Initial contents of the bucket: any subset of the first MaxVideos       *)
(* candidate videos under pending/, beside a text file and an empty        *)
(* object, which the listing filters out.                                  *)
(***************************************************************************)
CandidateVideos ==
    <<Key(pendingPrefix, "", "a.mp4"),
      Key(pendingPrefix, "", "b.mp4"),
      Key(pendingPrefix, "sub/", "a.mp4"),
      Key(pendingPrefix, "sub/", "b.mp4")>>

InitialBuckets(max) ==
    LET n == IF max < Len(CandidateVideos) THEN max
             ELSE Len(CandidateVideos)
        others == {Key(pendingPrefix, "", "c.txt"),
                   Key(pendingPrefix, "", "z.mp4")}
    IN { [k \in {CandidateVideos[i] : i \in S} \cup others |->
            IF k = Key(pendingPrefix, "", "c.txt") THEN [id |-> 8, size |-> 1]
            ELSE IF k = Key(pendingPrefix, "", "z.mp4")
              THEN [id |-> 9, size |-> 0]
            ELSE [id |-> CHOOSE i \in S : CandidateVideos[i] = k,
                  size |-> 1]] : S \in SUBSET (1..n) }

(***************************************************************************)
(* One invocation of the per-pass code (the body of runS3Pipeline's try,   *)
(* or one call of poll).                                                   *)
(***************************************************************************)
IdleProc ==
    [pc |-> "idle",
     videos |-> <<>>,           \* const videos
     i |-> 0,                   \* loop index, 1-based
     processingKey |-> NoKey,   \* let processingKey = null
     localVideoPath |-> "",     \* let localVideoPath = null
     file |-> 0,                \* id held by the local file, 0 when absent
     results |-> <<>>,          \* const results = []
     error |-> FALSE,           \* the pass is throwing
     conn |-> TRUE,             \* this worker's database connection
     \* history of what the code did, read by the properties only
     listed |-> FALSE,
     handled |-> <<>>,
     mtpKey |-> NoKey,
     dl |-> "none",
     pvr |-> "none",
     calls |-> <<>>,
     processed |-> {}]

Procs == DOMAIN proc

Set(p, r) == proc' = [proc EXCEPT ![p] = r]

At(p, label) == ~exited /\ proc[p].pc = label

\* Whether a request to the store goes through.
StoreOutcomes == IF faults THEN BOOLEAN ELSE {TRUE}

\* The state of the loop body at the start of iteration i: the two `let`s
\* are reset and s3Manager.moveToProcessing(video.key) is called.
BeginVideo(r, i) ==
    [r EXCEPT !.pc = "mtpCopy", !.i = i,
              !.processingKey = NoKey, !.localVideoPath = "", !.file = 0,
              !.handled = Append(r.handled, r.videos[i].key),
              !.mtpKey = NoKey, !.dl = "none", !.pvr = "none",
              !.calls = <<>>]

\* Where a pass goes when its loop is over or its listing is empty:
\* runS3Pipeline's finally (closeConnection), or poll's finally.
EndOfPass(r) ==
    [r EXCEPT !.pc = IF mode = "batch" THEN "close" ELSE "pollFinally"]

\* runS3Pipeline: await runMigrations(), inside the outer try.
RunMigrations(p) ==
    /\ At(p, "migrate")
    /\ \E ok \in BOOLEAN :
        Set(p, IF ok THEN [proc[p] EXCEPT !.pc = "list"]
               ELSE [proc[p] EXCEPT !.pc = "close", !.error = TRUE])
    /\ UNCHANGED <<bucket, faults, mode, isProcessing, mainpc, intervalArmed,
                   handlerOn, sigpc, dbOpen, exited, ticks, dropped>>
    /\ UNCHANGED <<pvVars, libVars>>

\* const videos = await s3Manager.listPendingVideos(), and the check of
\* videos.length that follows it.
ListPendingVideos(p) ==
    /\ At(p, "list")
    /\ \E ok \in StoreOutcomes :
        LET videos == ListingOf(bucket)
            r == [proc[p] EXCEPT !.videos = videos, !.listed = TRUE]
        IN Set(p, IF ~ok THEN [EndOfPass(proc[p]) EXCEPT !.error = TRUE]
                  ELSE IF Len(videos) = 0 THEN EndOfPass(r)
                  ELSE BeginVideo(r, 1))
    /\ UNCHANGED <<bucket, faults, mode, isProcessing, mainpc, intervalArmed,
                   handlerOn, sigpc, dbOpen, exited, ticks, dropped>>
    /\ UNCHANGED <<pvVars, libVars>>

\* CopyObject: fails when the store fails or the source key is absent,
\* otherwise the destination holds the source's object.
CopyOk(ok, from) == ok /\ Exists(bucket, from)
Copied(from, to) == (to :> bucket[from]) @@ bucket
\* DeleteObject: deleting an absent key succeeds.
Deleted(k) == [x \in DOMAIN bucket \ {k} |-> bucket[x]]

\* moveToProcessing: the CopyObjectCommand; its catch returns s3Key.
MoveToProcessingCopy(p) ==
    /\ At(p, "mtpCopy")
    /\ LET s3Key == proc[p].videos[proc[p].i].key
           newKey == JoinKey(processingPrefix, Basename(s3Key))
       IN \E ok \in StoreOutcomes :
            IF CopyOk(ok, s3Key)
            THEN /\ bucket' = Copied(s3Key, newKey)
                 /\ Set(p, [proc[p] EXCEPT !.pc = "mtpDelete"])
            ELSE /\ bucket' = bucket
                 /\ Set(p, [proc[p] EXCEPT !.pc = "download",
                                           !.processingKey = s3Key,
                                           !.mtpKey = s3Key])
    /\ UNCHANGED <<faults, mode, isProcessing, mainpc, intervalArmed,
                   handlerOn, sigpc, dbOpen, exited, ticks, dropped>>
    /\ UNCHANGED <<pvVars, libVars>>

\* moveToProcessing: the DeleteObjectCommand; returns newKey, or s3Key from
\* the catch.
MoveToProcessingDelete(p) ==
    /\ At(p, "mtpDelete")
    /\ LET s3Key == proc[p].videos[proc[p].i].key
           newKey == JoinKey(processingPrefix, Basename(s3Key))
       IN \E ok \in StoreOutcomes :
            IF ok
            THEN /\ bucket' = Deleted(s3Key)
                 /\ Set(p, [proc[p] EXCEPT !.pc = "download",
                                           !.processingKey = newKey,
                                           !.mtpKey = newKey])
            ELSE /\ bucket' = bucket
                 /\ Set(p, [proc[p] EXCEPT !.pc = "download",
                                           !.processingKey = s3Key,
                                           !.mtpKey = s3Key])
    /\ UNCHANGED <<faults, mode, isProcessing, mainpc, intervalArmed,
                   handlerOn, sigpc, dbOpen, exited, ticks, dropped>>
    /\ UNCHANGED <<pvVars, libVars>>

\* downloadVideo(processingKey, config.tempDir): GetObject, then the body is
\* streamed to tempDir/basename.  A failure while streaming leaves the part
\* written so far; either failure is rethrown.
DownloadVideo(p) ==
    /\ At(p, "download")
    /\ LET s3Key == proc[p].processingKey
       IN \E outcome \in IF faults
                          THEN {"ok", "getFailed", "streamFailed"}
                          ELSE {"ok"} :
            IF outcome # "getFailed" /\ Exists(bucket, s3Key)
            THEN IF outcome = "ok"
                 THEN Set(p, [proc[p] EXCEPT !.pc = "process",
                                  !.localVideoPath = Basename(s3Key),
                                  !.file = bucket[s3Key].id,
                                  !.dl = "ok"])
                 ELSE Set(p, [proc[p] EXCEPT !.pc = "catch",
                                  !.file = bucket[s3Key].id,
                                  !.dl = "err"])
            ELSE Set(p, [proc[p] EXCEPT !.pc = "catch", !.dl = "err"])
    /\ UNCHANGED <<bucket, faults, mode, isProcessing, mainpc, intervalArmed,
                   handlerOn, sigpc, dbOpen, exited, ticks, dropped>>
    /\ UNCHANGED <<pvVars, libVars>>

\* await processVideo(localVideoPath): returns (the source file is then
\* deleted) or throws (the source file is kept, or has been renamed away
\* when normalizeVideoAudio returned the input path).
ProcessVideo(p) ==
    /\ At(p, "process")
    /\ \E ok \in BOOLEAN, kept \in BOOLEAN :
        /\ ok => ~kept
        /\ Set(p, [proc[p] EXCEPT
                    !.pc = IF ok THEN "mtcCopy" ELSE "catch",
                    !.pvr = IF ok THEN "ok" ELSE "err",
                    !.file = IF kept THEN proc[p].file ELSE 0,
                    !.processed = proc[p].processed \cup {proc[p].file}])
    /\ UNCHANGED <<bucket, faults, mode, isProcessing, mainpc, intervalArmed,
                   handlerOn, sigpc, dbOpen, exited, ticks, dropped>>
    /\ UNCHANGED <<pvVars, libVars>>

\* results.push({file: video.name, status, ...}) of runS3Pipeline; poll
\* keeps no results.  Then the finally block is entered.
Pushed(r, status) ==
    [r EXCEPT !.pc = "finally",
              !.results = IF mode = "batch"
                          THEN Append(r.results,
                                 [file |-> r.videos[r.i].name,
                                  status |-> status])
                          ELSE r.results]

Called(r, fn) == [r EXCEPT !.calls = Append(r.calls,
                                [fn |-> fn, key |-> r.processingKey])]

\* moveToCompleted(processingKey): the copy; a failure is caught and logged.
MoveToCompletedCopy(p) ==
    /\ At(p, "mtcCopy")
    /\ LET s3Key == proc[p].processingKey
           newKey == JoinKey(completedPrefix, Basename(s3Key))
           r == Called(proc[p], "moveToCompleted")
       IN \E ok \in StoreOutcomes :
            IF CopyOk(ok, s3Key)
            THEN /\ bucket' = Copied(s3Key, newKey)
                 /\ Set(p, [r EXCEPT !.pc = "mtcDelete"])
            ELSE /\ bucket' = bucket
                 /\ Set(p, Pushed(r, "success"))
    /\ UNCHANGED <<faults, mode, isProcessing, mainpc, intervalArmed,
                   handlerOn, sigpc, dbOpen, exited, ticks, dropped>>
    /\ UNCHANGED <<pvVars, libVars>>

\* moveToCompleted: the delete; a failure is caught and logged.
MoveToCompletedDelete(p) ==
    /\ At(p, "mtcDelete")
    /\ \E ok \in StoreOutcomes :
        /\ bucket' = IF ok THEN Deleted(proc[p].processingKey) ELSE bucket
        /\ Set(p, Pushed(proc[p], "success"))
    /\ UNCHANGED <<faults, mode, isProcessing, mainpc, intervalArmed,
                   handlerOn, sigpc, dbOpen, exited, ticks, dropped>>
    /\ UNCHANGED <<pvVars, libVars>>

\* CatchError with the guard written on localVideoPath: a download that
\* failed then skips moveToFailed.
CatchErrorGuardsOnLocalPath(p) ==
    /\ At(p, "catch")
    /\ Set(p, IF proc[p].localVideoPath # ""
              THEN [Called(proc[p], "moveToFailed") EXCEPT !.pc = "mtfCopy"]
              ELSE Pushed(proc[p], "failed"))
    /\ UNCHANGED <<bucket, faults, mode, isProcessing, mainpc, intervalArmed,
                   handlerOn, sigpc, dbOpen, exited, ticks, dropped>>
    /\ UNCHANGED <<pvVars, libVars>>

\* The catch block of the loop body: if (processingKey) moveToFailed(...).
CatchError(p) ==
    /\ At(p, "catch")
    /\ Set(p, IF proc[p].processingKey # NoKey
              THEN [Called(proc[p], "moveToFailed") EXCEPT !.pc = "mtfCopy"]
              ELSE Pushed(proc[p], "failed"))
    /\ UNCHANGED <<bucket, faults, mode, isProcessing, mainpc, intervalArmed,
                   handlerOn, sigpc, dbOpen, exited, ticks, dropped>>
    /\ UNCHANGED <<pvVars, libVars>>

\* moveToFailed(processingKey): the copy; a failure is caught and logged.
MoveToFailedCopy(p) ==
    /\ At(p, "mtfCopy")
    /\ LET s3Key == proc[p].processingKey
           newKey == JoinKey(failedPrefix, Basename(s3Key))
       IN \E ok \in StoreOutcomes :
            IF CopyOk(ok, s3Key)
            THEN /\ bucket' = Copied(s3Key, newKey)
                 /\ Set(p, [proc[p] EXCEPT !.pc = "mtfDelete"])
            ELSE /\ bucket' = bucket
                 /\ Set(p, Pushed(proc[p], "failed"))
    /\ UNCHANGED <<faults, mode, isProcessing, mainpc, intervalArmed,
                   handlerOn, sigpc, dbOpen, exited, ticks, dropped>>
    /\ UNCHANGED <<pvVars, libVars>>

\* moveToFailed: the delete; a failure is caught and logged.
MoveToFailedDelete(p) ==
    /\ At(p, "mtfDelete")
    /\ \E ok \in StoreOutcomes :
        /\ bucket' = IF ok THEN Deleted(proc[p].processingKey) ELSE bucket
        /\ Set(p, Pushed(proc[p], "failed"))
    /\ UNCHANGED <<faults, mode, isProcessing, mainpc, intervalArmed,
                   handlerOn, sigpc, dbOpen, exited, ticks, dropped>>
    /\ UNCHANGED <<pvVars, libVars>>

\* Finally leaving the loop after a video that failed.
FinallyStopsAfterFailure(p) ==
    /\ At(p, "finally")
    /\ LET r == IF proc[p].localVideoPath # ""
                THEN [proc[p] EXCEPT !.file = 0] ELSE proc[p]
       IN Set(p, IF r.i < Len(r.videos) /\ r.calls[1].fn # "moveToFailed"
                 THEN BeginVideo(r, r.i + 1)
                 ELSE EndOfPass(r))
    /\ UNCHANGED <<bucket, faults, mode, isProcessing, mainpc, intervalArmed,
                   handlerOn, sigpc, dbOpen, exited, ticks, dropped>>
    /\ UNCHANGED <<pvVars, libVars>>

\* The finally block of the loop body (unlink of localVideoPath, errors
\* swallowed), then the next iteration or the end of the loop.
Finally(p) ==
    /\ At(p, "finally")
    /\ LET r == IF proc[p].localVideoPath # ""
                THEN [proc[p] EXCEPT !.file = 0] ELSE proc[p]
       IN Set(p, IF r.i < Len(r.videos) THEN BeginVideo(r, r.i + 1)
                 ELSE EndOfPass(r))
    /\ UNCHANGED <<bucket, faults, mode, isProcessing, mainpc, intervalArmed,
                   handlerOn, sigpc, dbOpen, exited, ticks, dropped>>
    /\ UNCHANGED <<pvVars, libVars>>

\* runS3Pipeline's outer finally: await closeConnection(); the function then
\* returns, or rethrows the error of migrations or listing.
ClosePass(p) ==
    /\ At(p, "close")
    /\ Set(p, [proc[p] EXCEPT !.pc = IF proc[p].error THEN "crashed"
                                     ELSE "done",
                              !.conn = FALSE])
    /\ UNCHANGED <<bucket, faults, mode, isProcessing, mainpc, intervalArmed,
                   handlerOn, sigpc, dbOpen, exited, ticks, dropped>>
    /\ UNCHANGED <<pvVars, libVars>>

(***************************************************************************)
(* runS3Pipeline: one worker, one pass.                                    *)
(***************************************************************************)
PvIdle == [pc |-> "idle"]

\* The drivers before their first step, whatever the bucket holds.
DriverAtRest(workers, m, f) ==
    /\ faults = f
    /\ proc = [p \in workers |->
                 [IdleProc EXCEPT !.pc = IF m = "batch" THEN "migrate"
                                         ELSE "idle"]]
    /\ mode = m
    /\ isProcessing = FALSE
    /\ mainpc = IF m = "batch" THEN "none" ELSE "migrate"
    /\ intervalArmed = FALSE
    /\ handlerOn = FALSE
    /\ sigpc = "none"
    /\ dbOpen = TRUE
    /\ exited = FALSE
    /\ ticks = 0
    /\ dropped = 0
    /\ pv = PvIdle
    /\ IdleLib("none")

DriverInit(workers, m, max, f) ==
    /\ bucket \in InitialBuckets(max)
    /\ DriverAtRest(workers, m, f)

InitBatch == DriverInit({1}, "batch", MaxVideos, TRUE)
NextBatch ==
    \/ \E p \in Procs : RunMigrations(p)
    \/ \E p \in Procs : ListPendingVideos(p)
    \/ \E p \in Procs : MoveToProcessingCopy(p)
    \/ \E p \in Procs : MoveToProcessingDelete(p)
    \/ \E p \in Procs : DownloadVideo(p)
    \/ \E p \in Procs : ProcessVideo(p)
    \/ \E p \in Procs : MoveToCompletedCopy(p)
    \/ \E p \in Procs : MoveToCompletedDelete(p)
    \/ \E p \in Procs : CatchError(p)
    \/ \E p \in Procs : MoveToFailedCopy(p)
    \/ \E p \in Procs : MoveToFailedDelete(p)
    \/ \E p \in Procs : Finally(p)
    \/ \E p \in Procs : ClosePass(p)
SpecBatch == InitBatch /\ [][NextBatch]_vars

(***************************************************************************)
(* One pass of runS3Pipeline over a bucket whose pending videos have the   *)
(* same file name in different directories under pending/.                 *)
(***************************************************************************)
SameNameBuckets ==
    {b \in InitialBuckets(Len(CandidateVideos)) :
        \A k \in DOMAIN b :
            ExtName(k[3]) = ".mp4" => k[3] \in {"a.mp4", "z.mp4"}}

InitSameName ==
    /\ bucket \in SameNameBuckets
    /\ DriverAtRest({1}, "batch", TRUE)
NextSameName == NextBatch
SpecSameName == InitSameName /\ [][NextSameName]_vars

(***************************************************************************)
(* Two workers, each running runS3Pipeline against the same bucket.  The   *)
(* store itself never fails here: a request fails only when the key it     *)
(* reads is absent.                                                        *)
(***************************************************************************)
InitWorkers == DriverInit({1, 2}, "batch", MaxSharedVideos, FALSE)
NextWorkers == NextBatch
SpecWorkers == InitWorkers /\ [][NextWorkers]_vars

(***************************************************************************)
(* runS3PollingMode: migrations, an initial poll, then the interval timer  *)
(* and the SIGINT handler.  The slots of proc are invocations of poll.     *)
(***************************************************************************)
\* await runMigrations() of runS3PollingMode; a rejection reaches the
\* caller's catch, which calls process.exit(1).
RunMigrationsPolling ==
    /\ ~exited /\ mainpc = "migrate"
    /\ \E ok \in BOOLEAN :
        /\ mainpc' = IF ok THEN "initialPoll" ELSE "failed"
        /\ exited' = ~ok
    /\ UNCHANGED <<bucket, faults, proc, mode, isProcessing, intervalArmed,
                   handlerOn, sigpc, dbOpen, ticks, dropped>>
    /\ UNCHANGED <<pvVars, libVars>>

\* poll started whatever isProcessing says.
PollIgnoresFlag(p) ==
    /\ isProcessing' = TRUE
    /\ Set(p, [IdleProc EXCEPT !.pc = "list"])
    /\ UNCHANGED dropped

\* poll, up to its first await: the check of isProcessing, the assignment
\* isProcessing = true and the call of listPendingVideos.
Poll(p) ==
    IF isProcessing
    THEN /\ dropped' = dropped + 1
         /\ UNCHANGED <<proc, isProcessing>>
    ELSE /\ isProcessing' = TRUE
         /\ Set(p, [IdleProc EXCEPT !.pc = "list"])
         /\ UNCHANGED dropped

\* The slot a new invocation of poll takes.
FreeSlot == CHOOSE p \in Procs : proc[p].pc = "idle"

\* await poll(): the initial poll.
InitialPoll ==
    /\ ~exited /\ mainpc = "initialPoll"
    /\ Poll(FreeSlot)
    /\ mainpc' = "awaitInitial"
    /\ UNCHANGED <<bucket, faults, mode, intervalArmed, handlerOn, sigpc,
                   dbOpen, exited, ticks>>
    /\ UNCHANGED <<pvVars, libVars>>

\* The interval timer fires and calls poll.
Tick ==
    /\ ~exited /\ intervalArmed
    /\ ticks < MaxTicks
    /\ \E p \in Procs : proc[p].pc = "idle"
    /\ ticks' = ticks + 1
    /\ Poll(FreeSlot)
    /\ UNCHANGED <<bucket, faults, mode, mainpc, intervalArmed, handlerOn,
                   sigpc, dbOpen, exited>>
    /\ UNCHANGED <<pvVars, libVars>>

\* poll resetting isProcessing at the end of its try block only, not in a
\* finally: a listing error leaves it set.
PollFinallyInTryOnly(p) ==
    /\ At(p, "pollFinally")
    /\ isProcessing' = proc[p].error
    /\ Set(p, IdleProc)
    /\ IF mainpc = "awaitInitial"
       THEN /\ mainpc' = "running"
            /\ intervalArmed' = TRUE
            /\ handlerOn' = TRUE
       ELSE UNCHANGED <<mainpc, intervalArmed, handlerOn>>
    /\ UNCHANGED <<bucket, faults, mode, sigpc, dbOpen, exited, ticks,
                   dropped>>
    /\ UNCHANGED <<pvVars, libVars>>

\* poll's catch (the error is logged) and finally (isProcessing = false).
\* When this was the initial poll, runS3PollingMode resumes: setInterval
\* and process.on('SIGINT').
PollFinally(p) ==
    /\ At(p, "pollFinally")
    /\ isProcessing' = FALSE
    /\ Set(p, IdleProc)
    /\ IF mainpc = "awaitInitial"
       THEN /\ mainpc' = "running"
            /\ intervalArmed' = TRUE
            /\ handlerOn' = TRUE
       ELSE UNCHANGED <<mainpc, intervalArmed, handlerOn>>
    /\ UNCHANGED <<bucket, faults, mode, sigpc, dbOpen, exited, ticks,
                   dropped>>
    /\ UNCHANGED <<pvVars, libVars>>

\* SIGINT is delivered.  With the handler registered it runs up to its
\* await: clearInterval, and the call of closeConnection.  Without it the
\* signal's default action ends the process.
Sigint ==
    /\ ~exited /\ sigpc = "none"
    /\ mainpc \in {"initialPoll", "awaitInitial", "running"}
    /\ IF handlerOn
       THEN /\ intervalArmed' = FALSE
            /\ sigpc' = "closing"
            /\ UNCHANGED exited
       ELSE /\ sigpc' = "killed"
            /\ exited' = TRUE
            /\ UNCHANGED intervalArmed
    /\ UNCHANGED <<bucket, faults, proc, mode, isProcessing, mainpc,
                   handlerOn, dbOpen, ticks, dropped>>
    /\ UNCHANGED <<pvVars, libVars>>

\* The handler resumes after closeConnection: process.exit(0).
SigintExit ==
    /\ ~exited /\ sigpc = "closing"
    /\ dbOpen' = FALSE
    /\ exited' = TRUE
    /\ sigpc' = "exited"
    /\ UNCHANGED <<bucket, faults, proc, mode, isProcessing, mainpc,
                   intervalArmed, handlerOn, ticks, dropped>>
    /\ UNCHANGED <<pvVars, libVars>>

InitPoll == DriverInit({1, 2}, "poll", MaxPolledVideos, TRUE)
NextPoll ==
    \/ RunMigrationsPolling
    \/ InitialPoll
    \/ Tick
    \/ \E p \in Procs : ListPendingVideos(p)
    \/ \E p \in Procs : MoveToProcessingCopy(p)
    \/ \E p \in Procs : MoveToProcessingDelete(p)
    \/ \E p \in Procs : DownloadVideo(p)
    \/ \E p \in Procs : ProcessVideo(p)
    \/ \E p \in Procs : MoveToCompletedCopy(p)
    \/ \E p \in Procs : MoveToCompletedDelete(p)
    \/ \E p \in Procs : CatchError(p)
    \/ \E p \in Procs : MoveToFailedCopy(p)
    \/ \E p \in Procs : MoveToFailedDelete(p)
    \/ \E p \in Procs : Finally(p)
    \/ \E p \in Procs : PollFinally(p)
    \/ Sigint
    \/ SigintExit
SpecPoll == InitPoll /\ [][NextPoll]_vars

(***************************************************************************)
(* processVideo, processVideoWithoutExercises and                          *)
(* processVideoTranscriptionOnly on one local video, with                  *)
(* prepareVideoOutputs and saveVideoData.  A tool that fails is taken to   *)
(* leave no partial output behind, and the unlinks of the finally block to *)
(* succeed.                                                                *)
(***************************************************************************)
EXERCISE_ATTEMPTS == 2
MaxAnalysisTopics == 2

\* An exercises array, by the number of its entries of each type.
Catalogs == [vocabulary : 2..4, topic : 0..1, statementCheck : 0..1]
EmptyExercises == [vocabulary |-> 0, topic |-> 0, statementCheck |-> 0]

\* validateExercisesStructure: the composition rule of the catalog.
ValidateExercisesStructure(e) ==
    /\ ~(e.vocabulary < 3 \/ e.vocabulary > 4)
    /\ ~(e.topic # 1)
    /\ ~(e.statementCheck < 1)

\* validateProcessedVideo: whether it returns rather than throws.  The
\* other parts of the record were validated when they were produced.
ValidateProcessedVideoAccepts(videoData) ==
    ValidateExercisesStructure(videoData.exercises)

\* validateProcessedVideo: the record it returns.
ValidateProcessedVideo(videoData) == [videoData EXCEPT !.validated = TRUE]

NoRecord == [videoUrl |-> "none", exercises |-> EmptyExercises,
             validated |-> FALSE]

Variants == {"full", "noExercises", "transcriptionOnly"}

PvStart(variant, hls, fallback, normalize, compress) ==
    [pc |-> "extract",
     variant |-> variant,
     hlsEnabled |-> hls,                \* config.hls.enabled
     includeMp4Fallback |-> fallback,   \* config.hls.includeMp4Fallback
     normalizeAudio |-> normalize,      \* config.audioNormalization.apply
     compressVideo |-> compress,        \* config.videoCompression.apply
     disk |-> {"videoPath"},            \* files and directories present
     audioPath |-> "",
     normalizedVideoPath |-> "",
     success |-> FALSE,
     topics |-> 0,                      \* validatedAnalysis.topics.length
     exercises |-> EmptyExercises,
     primaryUrl |-> "none",
     fallbackUrl |-> "none",
     row |-> NoRecord,                  \* saveVideoData's argument
     contentRow |-> FALSE,              \* a row of video_learning_content
     topicRows |-> 0,                   \* its rows of video_topics
     saved |-> FALSE,                   \* saveVideoData has returned
     json |-> NoRecord,                 \* the record written to outputDir
     written |-> FALSE,
     transcriptionUrl |-> "none",       \* videoUrl of the transcription JSON
     transcriptionWritten |-> FALSE,
     \* history, read by the properties only
     calls |-> <<>>,                    \* the stages invoked, in order
     hlsDone |-> FALSE,                 \* encoding and HLS upload succeeded
     hlsFailed |-> FALSE,
     failedAt |-> "none"]

\* A catch that logs the error and lets processVideo go on to the save.
ThrowSwallowed(r, stage) == [r EXCEPT !.pc = "save", !.failedAt = stage]

\* An error leaves the try block: catch (log, rethrow), then finally.
Throw(r, stage) == [r EXCEPT !.pc = "finally", !.failedAt = stage]

\* The call of a stage is recorded.
Invoke(r, fn) == [r EXCEPT !.calls = Append(@, fn)]

PvStep(r) == pv' = r /\ UNCHANGED <<drvVars, libVars>>

\* extractAudio(videoPath, config.tempDir).
ExtractAudio ==
    /\ pv.pc = "extract"
    /\ \E ok \in BOOLEAN :
        LET r == Invoke(pv, "extractAudio")
        IN PvStep(IF ok
                  THEN [r EXCEPT !.pc = "transcribe", !.audioPath = "wav",
                                 !.disk = @ \cup {"wav"}]
                  ELSE Throw(r, "extract"))

\* transcribeAudio and validateTranscriptionVariantsStructure; the
\* transcription-only variant goes on to normalization.
TranscribeAudio ==
    /\ pv.pc = "transcribe"
    /\ \E ok \in BOOLEAN :
        LET r == Invoke(pv, "transcribeAudio")
        IN PvStep(IF ok
                  THEN [r EXCEPT !.pc = IF pv.variant = "transcriptionOnly"
                                        THEN "normalize" ELSE "translate"]
                  ELSE Throw(r, "transcribe"))

\* translateTranscription and validateTranslationStructure.
TranslateTranscription ==
    /\ pv.pc = "translate"
    /\ \E ok \in BOOLEAN :
        LET r == Invoke(pv, "translateTranscription")
        IN PvStep(IF ok THEN [r EXCEPT !.pc = "analyze"]
                  ELSE Throw(r, "translate"))

\* analyzeText and validateAnalysisStructure, which returns one to three
\* topics; the no-exercises variant goes on to normalization.
AnalyzeText ==
    /\ pv.pc = "analyze"
    /\ \E ok \in BOOLEAN, topics \in 1..MaxAnalysisTopics :
        LET r == Invoke(pv, "analyzeText")
        IN PvStep(IF ok
                  THEN [r EXCEPT !.topics = topics,
                                 !.pc = IF pv.variant = "full"
                                        THEN "exercises" ELSE "normalize"]
                  ELSE Throw(r, "analyze"))

\* generateExercises: up to EXERCISE_ATTEMPTS responses, the first that
\* validateExercisesStructure accepts is returned; none, and it throws.
GenerateExercises ==
    /\ pv.pc = "exercises"
    /\ \E responses \in [1..EXERCISE_ATTEMPTS -> Catalogs] :
        LET good == {a \in 1..EXERCISE_ATTEMPTS :
                        ValidateExercisesStructure(responses[a])}
            first == CHOOSE a \in good : \A b \in good : a <= b
            r == Invoke(pv, "generateExercises")
        IN PvStep(IF good = {} THEN Throw(r, "exercises")
                  ELSE [r EXCEPT !.pc = "normalize",
                                 !.exercises = responses[first]])

\* normalizeVideoAudio(videoPath, config.tempDir): the input path itself
\* when neither normalization nor compression applies.
NormalizeVideoAudio ==
    /\ pv.pc = "normalize"
    /\ LET r == Invoke(pv, "normalizeVideoAudio")
       IN IF ~pv.normalizeAudio /\ ~pv.compressVideo
          THEN PvStep([r EXCEPT !.pc = "rename",
                                !.normalizedVideoPath = "videoPath"])
          ELSE \E ok \in BOOLEAN :
                 PvStep(IF ok
                        THEN [r EXCEPT !.pc = "rename",
                                       !.normalizedVideoPath = "normalized",
                                       !.disk = @ \cup {"normalized"}]
                        ELSE Throw(r, "normalize"))

\* The file is renamed to safeVideoFileName (a fresh random name, so the
\* basenames differ); on EXDEV it is copied and the original unlinked.
RenameToSafeName ==
    /\ pv.pc = "rename"
    /\ \E outcome \in {"renamed", "copied", "error"} :
        LET r == Invoke(pv, "rename")
        IN PvStep(IF outcome = "error" THEN Throw(r, "rename")
                  ELSE [r EXCEPT
                          !.pc = IF pv.hlsEnabled THEN "hls" ELSE "mp4",
                          !.disk = (@ \ {pv.normalizedVideoPath})
                                       \cup {"safe"},
                          !.normalizedVideoPath = "safe"])

\* The catch of prepareVideoOutputs rethrowing what it caught.
HlsPreparationFailedRethrows(r, stage) == Throw(r, stage)

\* The catch of prepareVideoOutputs: the error is logged, primaryUrl = null
\* and the plain upload follows.
HlsPreparationFailed(r, stage) ==
    [r EXCEPT !.pc = "mp4", !.primaryUrl = "none"]

\* prepareVideoOutputs followed by saveVideoData in every variant.
PreparedAlwaysSaves(r) == [r EXCEPT !.pc = "save"]

\* What follows prepareVideoOutputs in the caller.
Prepared(r) ==
    [r EXCEPT !.pc = IF r.variant = "transcriptionOnly"
                     THEN "writeTranscription" ELSE "save"]

\* generateHlsPackages(normalizedVideoPath, config.tempDir, safeBaseName):
\* the output directory is made first, then the renditions and the master
\* playlist are written into it.
GenerateHlsPackages ==
    /\ pv.pc = "hls"
    /\ \E ok \in BOOLEAN, made \in BOOLEAN :
        /\ ok => made
        /\ LET r == [Invoke(pv, "generateHlsPackages") EXCEPT
                        !.disk = IF made THEN @ \cup {"hlsDir"} ELSE @]
           IN PvStep(IF ok THEN [r EXCEPT !.pc = "hlsUpload"]
                     ELSE HlsPreparationFailed(
                              [r EXCEPT !.hlsFailed = TRUE], "hls"))

\* uploadHlsDirectory(hlsResult.outputDir, ...): primaryUrl.
UploadHlsDirectory ==
    /\ pv.pc = "hlsUpload"
    /\ \E ok \in BOOLEAN :
        LET r == Invoke(pv, "uploadHlsDirectory")
        IN PvStep(IF ok
                  THEN IF pv.includeMp4Fallback
                       THEN [r EXCEPT !.primaryUrl = "hlsUrl",
                                      !.hlsDone = TRUE, !.pc = "fallback"]
                       ELSE Prepared([r EXCEPT !.primaryUrl = "hlsUrl",
                                               !.hlsDone = TRUE])
                  ELSE HlsPreparationFailed(
                           [r EXCEPT !.hlsFailed = TRUE], "hlsUpload"))

\* uploadVideo of the MP4 fallback, inside the same try.
UploadMp4Fallback ==
    /\ pv.pc = "fallback"
    /\ \E ok \in BOOLEAN :
        LET r == Invoke(pv, "uploadVideo")
        IN PvStep(IF ok THEN Prepared([r EXCEPT !.fallbackUrl = "mp4Url"])
                  ELSE HlsPreparationFailed(r, "fallback"))

\* if (!primaryUrl) primaryUrl = await uploadVideo(...); an error here
\* leaves prepareVideoOutputs.
UploadVideo ==
    /\ pv.pc = "mp4"
    /\ \E ok \in BOOLEAN :
        LET r == Invoke(pv, "uploadVideo")
        IN PvStep(IF ok THEN Prepared([r EXCEPT !.primaryUrl = "mp4Url"])
                  ELSE Throw(r, "mp4"))

\* The record built from the stages' results.
VideoData(r) ==
    [videoUrl |-> r.primaryUrl,
     exercises |-> IF r.variant = "full" THEN r.exercises
                   ELSE EmptyExercises,
     validated |-> FALSE]

\* saveVideoData after its last INSERT: it returns the row's id.
SaveReturns(r) == [r EXCEPT !.saved = TRUE, !.pc = "write"]

\* processVideo: validateProcessedVideo(videoData), then
\* saveVideoData(validated).  processVideoWithoutExercises:
\* saveVideoData(videoData).  saveVideoData opens with the INSERT INTO
\* video_learning_content, outside any transaction.
SaveVideoData ==
    /\ pv.pc = "save"
    /\ LET videoData == VideoData(pv)
           arg == IF pv.variant = "full"
                  THEN ValidateProcessedVideo(videoData) ELSE videoData
           v == IF pv.variant = "full"
                THEN Invoke(pv, "validateProcessedVideo") ELSE pv
           r == Invoke(v, "saveVideoData")
       IN IF pv.variant = "full"
             /\ ~ValidateProcessedVideoAccepts(videoData)
          THEN PvStep(Throw(v, "validate"))
          ELSE \E ok \in BOOLEAN :
                 PvStep(IF ~ok THEN Throw(r, "save")
                        ELSE LET inserted == [r EXCEPT !.row = arg,
                                                 !.contentRow = TRUE]
                             IN IF pv.topics > 0
                                THEN [inserted EXCEPT !.pc = "topics"]
                                ELSE SaveReturns(inserted))

\* saveVideoData: one INSERT INTO video_topics for each topic of the
\* analysis, each awaited; an error leaves saveVideoData.
InsertVideoTopic ==
    /\ pv.pc = "topics"
    /\ \E ok \in BOOLEAN :
        PvStep(IF ~ok THEN Throw(pv, "topics")
               ELSE LET r == [pv EXCEPT !.topicRows = @ + 1]
                    IN IF r.topicRows < pv.topics THEN r
                       ELSE SaveReturns(r))

\* fs.writeFile(outputPath, JSON.stringify(...)) of the record that was
\* saved, then success = true and the return.
WriteJson ==
    /\ pv.pc = "write"
    /\ \E ok \in BOOLEAN :
        LET r == Invoke(pv, "writeFile")
        IN PvStep(IF ok THEN [r EXCEPT !.pc = "finally", !.json = pv.row,
                                       !.written = TRUE, !.success = TRUE]
                  ELSE Throw(r, "write"))

\* processVideoTranscriptionOnly: fs.writeFile of videoName, videoUrl,
\* durationSeconds and transcription under transcriptionJsonFileName, then
\* success = true and the return.
WriteTranscriptionJson ==
    /\ pv.pc = "writeTranscription"
    /\ \E ok \in BOOLEAN :
        LET r == Invoke(pv, "writeFile")
        IN PvStep(IF ok
                  THEN [r EXCEPT !.pc = "finally",
                                 !.transcriptionUrl = pv.primaryUrl,
                                 !.transcriptionWritten = TRUE,
                                 !.success = TRUE]
                  ELSE Throw(r, "write"))

\* The finally block: audioPath, normalizedVideoPath unless it is
\* videoPath, and videoPath after a success, are unlinked.
FinallyCleanup ==
    /\ pv.pc = "finally"
    /\ LET gone == (IF pv.audioPath # "" THEN {pv.audioPath} ELSE {})
                   \cup (IF pv.normalizedVideoPath # ""
                            /\ pv.normalizedVideoPath # "videoPath"
                         THEN {pv.normalizedVideoPath} ELSE {})
                   \cup (IF pv.success THEN {"videoPath"} ELSE {})
       IN PvStep([pv EXCEPT !.disk = @ \ gone,
                            !.pc = IF pv.success THEN "returned"
                                   ELSE "threw"])

InitPV ==
    /\ pv \in {PvStart(v, h, f, n, c) :
                 v \in Variants, h \in BOOLEAN, f \in BOOLEAN,
                 n \in BOOLEAN, c \in BOOLEAN}
    /\ bucket = <<>>
    /\ faults = FALSE
    /\ proc = <<>>
    /\ mode = "local"
    /\ isProcessing = FALSE
    /\ mainpc = "none"
    /\ intervalArmed = FALSE
    /\ handlerOn = FALSE
    /\ sigpc = "none"
    /\ dbOpen = TRUE
    /\ exited = FALSE
    /\ ticks = 0
    /\ dropped = 0
    /\ IdleLib("none")
NextPV ==
    \/ ExtractAudio
    \/ TranscribeAudio
    \/ TranslateTranscription
    \/ AnalyzeText
    \/ GenerateExercises
    \/ NormalizeVideoAudio
    \/ RenameToSafeName
    \/ GenerateHlsPackages
    \/ UploadHlsDirectory
    \/ UploadMp4Fallback
    \/ UploadVideo
    \/ SaveVideoData
    \/ InsertVideoTopic
    \/ WriteJson
    \/ WriteTranscriptionJson
    \/ FinallyCleanup
SpecPV == InitPV /\ [][NextPV]_vars

(***************************************************************************)
(* translateTranscription and translateChunkWithGemini.  A text is known   *)
(* by its kind: "" (empty), "ws" (white space only), "en" (no Cyrillic     *)
(* letter), "ru" (some Cyrillic letter), "qru" (Cyrillic text wrapped in   *)
(* double quotes).                                                         *)
(***************************************************************************)
MaxChunks == 3
MaxItems == 2
DEFAULT_CHUNK_SIZE == 2
MAX_ATTEMPTS == 2

\* String.prototype.trim.
Trim(t) == IF t = "ws" THEN "" ELSE t

\* text.replace(STRIP_WRAPPING_QUOTES, "$1").trim()
StripWrappingQuotes(t) == IF t = "qru" THEN "ru" ELSE Trim(t)

\* normalizeWhitespace
NormalizeWhitespace(t) == IF t = "" THEN "" ELSE Trim(t)

\* CYRILLIC_REGEX.test
HasCyrillic(t) == t \in {"ru", "qru"}

\* validateTranscriptionStructure, on the chunks: each becomes
\* {text: trimmed, timestamp}.
ValidatedChunks(chunks) ==
    [i \in 1..Len(chunks) |->
        [text |-> Trim(chunks[i].text), timestamp |-> chunks[i].timestamp]]

\* items.slice(from, to), on 1-based sequences.
Slice(items, from, to) ==
    [i \in 1..(IF to < Len(items) THEN to ELSE Len(items)) - from + 1 |->
        items[from + i - 1]]

\* chunkArray losing the last, shorter batch.
ChunkArrayDropsRemainder(items, chunkSize) ==
    IF Len(items) <= chunkSize THEN <<items>>
    ELSE [b \in 1..(Len(items) \div chunkSize) |->
            Slice(items, (b - 1) * chunkSize + 1, b * chunkSize)]

\* chunkArray(items, chunkSize)
ChunkArray(items, chunkSize) ==
    IF Len(items) <= chunkSize THEN <<items>>
    ELSE [b \in 1..((Len(items) + chunkSize - 1) \div chunkSize) |->
            Slice(items, (b - 1) * chunkSize + 1, b * chunkSize)]

\* The phrase views handed to translateTranscription.
PhraseViews ==
    UNION {[1..n -> [text : {"en", "ws"}, timestamp : {0}]] :
              n \in 0..MaxChunks}

\* Chunk i of a view gets the timestamp [i, i + 1].
Stamped(view) ==
    [i \in 1..Len(view) |-> [view[i] EXCEPT !.timestamp = <<i, i + 1>>]]

\* An item.index for which Number.isFinite is false.
NoIndex == 0 - 100

\* The items a batch response may hold for the batch at the given offset:
\* a text that is empty, untranslated or a translation in quotes, and an
\* index that is missing, expected or unexpected.
ResponseItems(offset) ==
    [text : {"", "en", "qru"},
     index : {NoIndex, offset - 1, offset, offset + 1}]

ResponseArrays(offset) ==
    UNION {[1..n -> ResponseItems(offset)] : n \in 0..MaxItems}

\* parsed.map(...): payload[index].index of an item beyond the batch that
\* carries no index is a TypeError.
MapThrows(chunk, parsed) ==
    \E j \in 1..Len(parsed) : j > Len(chunk) /\ parsed[j].index = NoIndex

\* parsed.map(...), then the pad or truncate to chunk.length, then the
\* forEach that refills empty texts.
NormalizedItems(chunk, offset, parsed) ==
    [j \in 1..Len(chunk) |->
        IF j <= Len(parsed)
        THEN LET text == StripWrappingQuotes(Trim(parsed[j].text))
             IN [text |-> IF text # "" THEN text ELSE chunk[j].text,
                 index |-> IF parsed[j].index # NoIndex THEN parsed[j].index
                           ELSE offset + j - 1]
        ELSE [text |-> chunk[j].text, index |-> offset + j - 1]]

\* byIndex.get(key) after the forEach that fills the map: the first entry
\* with this index, replaced by the first later one with text when it has
\* none.  A record without index when the index is missing.
ByIndex(normalized, key) ==
    LET at == {j \in 1..Len(normalized) : normalized[j].index = key}
        first == CHOOSE j \in at : \A k \in at : j <= k
        filled == {j \in at : Trim(normalized[j].text) # ""}
        better == CHOOSE j \in filled : \A k \in filled : j <= k
    IN IF at = {} THEN [text |-> "", index |-> NoIndex]
       ELSE IF Trim(normalized[first].text) = "" /\ filled # {}
         THEN normalized[better]
       ELSE normalized[first]

\* expectedIndices.map(...): the aligned texts, one per line of the batch.
Aligned(chunk, offset, parsed) ==
    LET normalized == NormalizedItems(chunk, offset, parsed)
    IN [i \in 1..Len(chunk) |->
          LET fromMap == ByIndex(normalized, offset + i - 1)
          IN IF Trim(fromMap.text) # "" THEN Trim(fromMap.text)
             ELSE chunk[i].text]

\* translateTranscription(transcription), called.
TrStart(transcription) ==
    [pc |-> "start",
     transcription |-> transcription,
     chunks |-> <<>>,           \* normalizedTranscription.chunks
     chunked |-> <<>>,          \* const chunked
     i |-> 0,                   \* index of the batch, 1-based
     attempt |-> 0,
     aligned |-> <<>>,          \* const aligned, the texts
     message |-> "none",        \* const message of the catch block
     waiting |-> 0,             \* ms of the delay being awaited
     line |-> 0,                \* the line the single-line retry is for
     translations |-> <<>>,
     result |-> <<>>,           \* the chunks of the Translation returned
     \* history, read by the properties only
     requests |-> <<>>,         \* batch requests sent, per batch
     failures |-> <<>>,         \* failed attempts, per batch
     offered |-> <<>>,          \* per line of the batch, the texts the
                                \* response holds under the line's index
     retried |-> {}]            \* lines whose single-line retry gave
                                \* no Cyrillic text

TrStep(r) ==
    tr' = r /\ UNCHANGED <<drvVars, pvVars, llm, val, grp, mig, dbc, rus>>

\* translations.length when the batch starts.
Offset(r) == Len(r.translations)

\* The loop head for batch i: translateChunkWithGemini is called and its
\* first attempt begins.
BeginBatch(r, i) ==
    [r EXCEPT !.pc = "request", !.i = i, !.attempt = 1, !.aligned = <<>>,
              !.offered = <<>>, !.line = 0,
              !.requests = Append(@, 0), !.failures = Append(@, 0)]

\* The beginning of translateTranscription: the input is validated; no
\* chunks, and the empty Translation is returned.
TranslateTranscriptionCalled ==
    /\ tr.pc = "start"
    /\ LET chunks == ValidatedChunks(tr.transcription)
           r == [tr EXCEPT !.chunks = chunks]
       IN TrStep(IF Len(chunks) = 0
                 THEN [r EXCEPT !.pc = "returned", !.result = <<>>]
                 ELSE BeginBatch(
                          [r EXCEPT !.chunked =
                               ChunkArray(chunks, DEFAULT_CHUNK_SIZE)], 1))

\* The loop over aligned checking its first line only.
RetryLineFirstOnly(aligned, chunk, from) ==
    IF from = 1 /\ ~HasCyrillic(aligned[1]) /\ chunk[1].text # ""
    THEN 1 ELSE 0

\* The loop over aligned starting over after each retry: a line is retried
\* until its text has a Cyrillic letter.
RetryLineFromStart(aligned, chunk, from) ==
    LET lacking == {j \in 1..Len(chunk) :
                       ~HasCyrillic(aligned[j]) /\ chunk[j].text # ""}
    IN IF lacking = {} THEN 0
       ELSE CHOOSE j \in lacking : \A k \in lacking : j <= k

\* The first line at or after `from` whose aligned text has no Cyrillic
\* letter and for which translateSingleLineWithGemini sends a request (it
\* returns "" at once for an empty source); 0 when there is none.
RetryLine(aligned, chunk, from) ==
    LET lacking == {j \in from..Len(chunk) :
                       ~HasCyrillic(aligned[j]) /\ chunk[j].text # ""}
    IN IF lacking = {} THEN 0
       ELSE CHOOSE j \in lacking : \A k \in lacking : j <= k

\* translateChunkWithGemini returns aligned; translateTranscription pushes
\* one translation per line and goes to the next batch, or builds the
\* Translation and returns validateTranslationStructure of it.
BatchDone(r) ==
    LET segment == r.chunked[r.i]
        pushed == [j \in 1..Len(r.aligned) |->
                     [text |-> NormalizeWhitespace(
                                   NormalizeWhitespace(r.aligned[j])),
                      timestamp |-> segment[j].timestamp,
                      sourceText |-> segment[j].text]]
        r2 == [r EXCEPT !.translations = @ \o pushed, !.offered = <<>>]
    IN IF r.i < Len(r.chunked) THEN BeginBatch(r2, r.i + 1)
       ELSE [r2 EXCEPT !.pc = "returned",
                       !.result = ValidatedChunks(r2.translations)]

\* The loop over aligned, from line `from` on: up to the next await.
CyrillicPass(r, from) ==
    LET j == RetryLine(r.aligned, r.chunked[r.i], from)
    IN IF j = 0 THEN BatchDone(r)
       ELSE [r EXCEPT !.pc = "line", !.line = j]

\* What makes an attempt fail before an aligned result: the request is
\* rejected, for a rate limit (429 Too Many Requests, or Resource
\* exhausted) or for another reason, or the response is empty, holds no
\* array, or holds an item that is no object.
BatchFailures ==
    {"rejected", "rejected429", "rejectedExhausted", "empty", "noArray",
     "notObject"}

\* String(lastError?.message || lastError), as far as the catch reads it.
MessageOf(failure) ==
    CASE failure = "rejected429" -> "429"
      [] failure = "rejectedExhausted" -> "Resource exhausted"
      [] OTHER -> "other"

\* The delay of the catch without the test for a rate limit.
BackoffLinearOnly(message, attempt) == 300 * attempt

\* The ms the catch of a failed attempt waits before the next attempt.
BackoffDelay(message, attempt) ==
    IF message = "429" \/ message = "Resource exhausted" THEN 30000
    ELSE 300 * attempt

\* The catch of an attempt allowing one attempt more.
AttemptFailedOnceMore(r, message) ==
    LET r2 == [r EXCEPT !.failures[r.i] = @ + 1]
    IN IF r.attempt <= MAX_ATTEMPTS
       THEN [r2 EXCEPT !.pc = "delay", !.message = message,
                       !.waiting = BackoffDelay(message, r.attempt)]
       ELSE [r2 EXCEPT !.pc = "threw"]

\* catch of an attempt: the next attempt after the delay, or the throw of
\* lastError, which translateTranscription lets through.
AttemptFailed(r, message) ==
    LET r2 == [r EXCEPT !.failures[r.i] = @ + 1]
    IN IF r.attempt < MAX_ATTEMPTS
       THEN [r2 EXCEPT !.pc = "delay", !.message = message,
                       !.waiting = BackoffDelay(message, r.attempt)]
       ELSE [r2 EXCEPT !.pc = "threw"]

\* await delay(ms) resolves: the for loop goes to the next attempt.
DelayElapsed ==
    /\ tr.pc = "delay"
    /\ TrStep([tr EXCEPT !.pc = "request", !.attempt = @ + 1,
                         !.message = "none", !.waiting = 0])

\* The non-empty texts of the items of the response whose index is that
\* of line j of the batch at the offset, an item without an index counting
\* for the line at its position.
ItemTexts(parsed, offset, j) ==
    {StripWrappingQuotes(Trim(parsed[p].text)) :
        p \in {q \in 1..Len(parsed) :
                  IF parsed[q].index # NoIndex
                  THEN parsed[q].index = offset + j - 1
                  ELSE q = j}} \ {""}

\* One attempt of translateChunkWithGemini: model.generateContent and the
\* handling of its response up to the first single-line retry.
BatchRequest ==
    /\ tr.pc = "request"
    /\ LET chunk == tr.chunked[tr.i]
           r == [tr EXCEPT !.requests[tr.i] = @ + 1]
       IN \/ \E failure \in BatchFailures :
               TrStep(AttemptFailed(r, MessageOf(failure)))
          \/ \E parsed \in ResponseArrays(Offset(tr)) :
               TrStep(IF MapThrows(chunk, parsed)
                      THEN AttemptFailed(r, "other")
                      ELSE CyrillicPass(
                               [r EXCEPT !.offered =
                                    [j \in 1..Len(chunk) |->
                                       ItemTexts(parsed, Offset(tr), j)],
                                         !.aligned =
                                    Aligned(chunk, Offset(tr), parsed)], 1))

\* translateSingleLineWithGemini for the line, and the rest of the loop
\* over aligned.
SingleLineRetry ==
    /\ tr.pc = "line"
    /\ \E response \in {"rejected", "", "ws", "en", "ru", "qru"} :
        LET retry == IF response = "rejected" THEN ""
                     ELSE NormalizeWhitespace(
                              StripWrappingQuotes(Trim(response)))
            r == IF HasCyrillic(retry)
                 THEN [tr EXCEPT !.aligned[tr.line] = retry]
                 ELSE [tr EXCEPT !.retried =
                           @ \cup {Offset(tr) + tr.line}]
        IN TrStep(CyrillicPass(r, tr.line + 1))

InitTranslate ==
    /\ tr \in {TrStart(Stamped(view)) : view \in PhraseViews}
    /\ IdleLib("tr")
    /\ pv = PvIdle
    /\ bucket = <<>>
    /\ faults = FALSE
    /\ proc = <<>>
    /\ mode = "local"
    /\ isProcessing = FALSE
    /\ mainpc = "none"
    /\ intervalArmed = FALSE
    /\ handlerOn = FALSE
    /\ sigpc = "none"
    /\ dbOpen = TRUE
    /\ exited = FALSE
    /\ ticks = 0
    /\ dropped = 0
NextTranslate ==
    \/ TranslateTranscriptionCalled
    \/ BatchRequest
    \/ DelayElapsed
    \/ SingleLineRetry
SpecTranslate == InitTranslate /\ [][NextTranslate]_vars

(***************************************************************************)
(* The validators of types/dataTypes.js, as functions of their argument.   *)
(* Here a text stands for itself: "pen" is "en" and "pru" is "ru" with     *)
(* white space around.  Each validator has an operator telling whether it  *)
(* returns rather than throws, and an operator for the value it returns.   *)
(***************************************************************************)
MaxViewChunks == 1
MaxTopics == 4
MaxVocabulary == 5
MaxTopicExercises == 2
MaxStatementChecks == 3

\* A property that is missing, and a value that is not a string.
Undefined == "undefined"
NotAString == "notAString"

SeqsUpTo(S, n) == UNION {[1..k -> S] : k \in 0..n}

\* assertString: whether it returns.
IsString(value) == value \notin {Undefined, NotAString}

\* String.prototype.trim, on the texts of the validators.
TrimText(t) ==
    CASE t = "pen" -> "en"
      [] t = "pru" -> "ru"
      [] OTHER -> Trim(t)

\* a ?? b
Coalesce(a, b) == IF a # Undefined THEN a ELSE b

\* normalizeTimestamp: <<>> stands for a missing timestamp.
NoTimestamp == <<>>
TimestampOf(chunk) ==
    IF chunk.timestamp # NoTimestamp THEN chunk.timestamp
    ELSE IF chunk.time # NoTimestamp THEN chunk.time
    ELSE <<0, 0>>

\* validateTranscriptionStructure: whether it returns.
ValidateTranscriptionStructureAccepts(transcription) ==
    /\ IsString(Coalesce(transcription.fullText,
                         Coalesce(transcription.text, "")))
    /\ \A i \in 1..Len(transcription.chunks) :
          /\ IsString(Coalesce(transcription.chunks[i].text, ""))
          /\ Len(TimestampOf(transcription.chunks[i])) = 2

\* validateTranscriptionStructure: {fullText, text: fullText, chunks}.
ValidateTranscriptionStructure(transcription) ==
    LET fullText == TrimText(Coalesce(transcription.fullText,
                                      Coalesce(transcription.text, "")))
    IN [fullText |-> fullText,
        text |-> fullText,
        chunks |-> [i \in 1..Len(transcription.chunks) |->
                      [text |-> TrimText(Coalesce(
                                    transcription.chunks[i].text, "")),
                       timestamp |-> TimestampOf(transcription.chunks[i])]]]

\* validateTranscriptionVariantsStructure accepting views whose fullText
\* differ.
ValidateVariantsSkipsComparison(v) ==
    /\ ValidateTranscriptionStructureAccepts(v.plain)
    /\ ValidateTranscriptionStructureAccepts(v.phrases)
    /\ ValidateTranscriptionStructureAccepts(v.words)

\* validateTranscriptionVariantsStructure: whether it returns.
ValidateTranscriptionVariantsStructureAccepts(v) ==
    /\ ValidateTranscriptionStructureAccepts(v.plain)
    /\ ValidateTranscriptionStructureAccepts(v.phrases)
    /\ ValidateTranscriptionStructureAccepts(v.words)
    /\ LET baseText == ValidateTranscriptionStructure(v.plain).fullText
       IN ~(\/ ValidateTranscriptionStructure(v.phrases).fullText # baseText
            \/ ValidateTranscriptionStructure(v.words).fullText # baseText)

\* validateTranscriptionVariantsStructure: {plain, phrases, words, fullText}.
ValidateTranscriptionVariantsStructure(v) ==
    [plain |-> ValidateTranscriptionStructure(v.plain),
     phrases |-> ValidateTranscriptionStructure(v.phrases),
     words |-> ValidateTranscriptionStructure(v.words),
     fullText |-> ValidateTranscriptionStructure(v.plain).fullText]

\* config.videoTopics, its first four entries, and config.cefrLevels.
videoTopics == <<"Business", "Technology", "Science", "Health">>
CEFR_LEVELS == {"A1", "A2", "B1", "B2", "C1", "C2"}
SPEECH_SPEEDS == {"slow", "normal", "fast"}
GRAMMAR_COMPLEXITIES == {"simple", "intermediate", "complex"}
VOCABULARY_COMPLEXITIES == {"basic", "intermediate", "advanced"}

\* String.prototype.toLowerCase and toUpperCase, on the strings in use.
ToLowerCase(s) ==
    CASE s = "Business" -> "business"
      [] s = "TECHNOLOGY" -> "technology"
      [] s = "Technology" -> "technology"
      [] s = "Science" -> "science"
      [] s = "Health" -> "health"
      [] s = "Pets" -> "pets"
      [] s = "Fast" -> "fast"
      [] OTHER -> s
ToUpperCase(s) ==
    CASE s = "b1" -> "B1"
      [] s = "z9" -> "Z9"
      [] OTHER -> s

\* TOPIC_LOOKUP[value] || null.  TOPIC_LOOKUP is an object literal filled
\* by reduce: a value that is no lower-cased topic but is the name of a
\* property of Object.prototype gives that property, which is no string.
NoTopic == "null"
InheritedProperties == {"constructor", "__proto__"}
TOPIC_LOOKUP(value) ==
    LET at == {i \in 1..Len(videoTopics) : ToLowerCase(videoTopics[i]) = value}
    IN IF at # {} THEN videoTopics[CHOOSE i \in at : \A j \in at : j <= i]
       ELSE IF value \in InheritedProperties THEN NotAString
       ELSE NoTopic

\* Array.from(new Set(items)): the first occurrences, in order.
RECURSIVE Distinct(_)
Distinct(items) ==
    IF items = <<>> THEN <<>>
    ELSE LET rest == Distinct(SubSeq(items, 1, Len(items) - 1))
             last == items[Len(items)]
         IN IF \E i \in 1..Len(rest) : rest[i] = last THEN rest
            ELSE Append(rest, last)

IsTopic(t) == t # NoTopic

\* The topics of validateAnalysisStructure.
TopicsOf(topicsRaw) ==
    LET topicsMapped ==
            SelectSeq([i \in 1..Len(topicsRaw) |->
                          TOPIC_LOOKUP(ToLowerCase(TrimText(topicsRaw[i])))],
                      IsTopic)
    IN IF Len(topicsMapped) # 0
       THEN Slice(Distinct(topicsMapped), 1, 3)
       ELSE Slice(videoTopics, 1, 3)

\* validateAnalysisStructure: whether it returns.
ValidateAnalysisStructureAccepts(analysis) ==
    /\ IsString(analysis.cefrLevel)
    /\ ToUpperCase(TrimText(analysis.cefrLevel)) \in CEFR_LEVELS
    /\ IsString(analysis.speechSpeed)
    /\ ToLowerCase(TrimText(analysis.speechSpeed)) \in SPEECH_SPEEDS
    /\ IsString(analysis.grammarComplexity)
    /\ ToLowerCase(TrimText(analysis.grammarComplexity))
           \in GRAMMAR_COMPLEXITIES
    /\ IsString(analysis.vocabularyComplexity)
    /\ ToLowerCase(TrimText(analysis.vocabularyComplexity))
           \in VOCABULARY_COMPLEXITIES
    /\ \A i \in 1..Len(analysis.topics) : IsString(analysis.topics[i])

\* validateAnalysisStructure: the analysis it returns.  isAdultContent is
\* "true", "false" or not a boolean.
ValidateAnalysisStructure(analysis) ==
    [cefrLevel |-> ToUpperCase(TrimText(analysis.cefrLevel)),
     speechSpeed |-> ToLowerCase(TrimText(analysis.speechSpeed)),
     grammarComplexity |-> ToLowerCase(TrimText(analysis.grammarComplexity)),
     vocabularyComplexity |->
         ToLowerCase(TrimText(analysis.vocabularyComplexity)),
     topics |-> TopicsOf(analysis.topics),
     isAdultContent |-> IF analysis.isAdultContent \in {"true", "false"}
                        THEN analysis.isAdultContent ELSE "false"]

EXERCISE_TYPES == {"vocabulary", "topic", "statementCheck"}

\* LATIN_REGEX.test
HasLatin(t) == t \in {"en", "pen"}

\* validateVocabularyExercise: whether it returns.  options are trimmed
\* strings by now.
ValidateVocabularyExerciseAccepts(exercise, options) ==
    LET word == Coalesce(exercise.word, "")
        wordHasCyrillic == HasCyrillic(TrimText(word))
        wordHasLatin == HasLatin(TrimText(word))
        optionsAreCyrillic ==
            \A i \in 1..Len(options) : HasCyrillic(TrimText(options[i]))
        optionsAreLatin ==
            \A i \in 1..Len(options) : HasLatin(TrimText(options[i]))
    IN /\ IsString(word)
       /\ ~(Len(options) < 3 \/ Len(options) > 4)
       /\ ~(~wordHasCyrillic /\ ~wordHasLatin)
       /\ ~(wordHasLatin /\ ~optionsAreCyrillic)
       /\ ~(wordHasCyrillic /\ ~optionsAreLatin)

\* Number.isInteger(correctAnswer); correctAnswer is held in halves, so that
\* 3 stands for 1.5 and 6 for 3.
IsInteger(correctAnswer) == correctAnswer % 2 = 0

\* The callback of exercises.map in validateExercisesStructure: whether it
\* returns.
ExerciseAccepted(exercise) ==
    LET options == [i \in 1..Len(exercise.options) |->
                       TrimText(exercise.options[i])]
    IN /\ IsString(exercise.type)
       /\ TrimText(exercise.type) \in EXERCISE_TYPES
       /\ IsString(exercise.question)
       /\ HasCyrillic(TrimText(exercise.question))
       /\ \A i \in 1..Len(exercise.options) : IsString(exercise.options[i])
       /\ IsInteger(exercise.correctAnswer)
       /\ ~(\/ exercise.correctAnswer < 0
            \/ exercise.correctAnswer >= 2 * Len(options))
       /\ TrimText(exercise.type) = "vocabulary" =>
              ValidateVocabularyExerciseAccepts(exercise, options)

\* The callback of exercises.map: { ...exercise, question, options,
\* correctAnswer, type }.
NormalizedExercise(exercise) ==
    [exercise EXCEPT
        !.type = TrimText(@),
        !.question = TrimText(@),
        !.options = [i \in 1..Len(exercise.options) |->
                        TrimText(exercise.options[i])]]

\* normalized.filter((ex) => ex.type === type).length
CountOfType(exercises, type) ==
    Cardinality({i \in 1..Len(exercises) : exercises[i].type = type})

\* vocabularyCount, topicCount and statementCount.
CountsOf(exercises) ==
    [vocabulary |-> CountOfType(exercises, "vocabulary"),
     topic |-> CountOfType(exercises, "topic"),
     statementCheck |-> CountOfType(exercises, "statementCheck")]

\* validateExercisesStructure on a list of exercises: the list it returns.
ValidatedExercises(exercises) ==
    [i \in 1..Len(exercises) |-> NormalizedExercise(exercises[i])]

\* validateExercisesStructure on a list of exercises: whether it returns.
ExercisesAccepted(exercises) ==
    /\ \A i \in 1..Len(exercises) : ExerciseAccepted(exercises[i])
    /\ ValidateExercisesStructure(CountsOf(ValidatedExercises(exercises)))

\* durationSeconds that is null or undefined.
NoDuration == 0 - 1

\* validateProcessedVideo on a whole record: whether it returns.
ProcessedVideoAccepted(videoData) ==
    /\ IsString(videoData.videoName)
    /\ IsString(videoData.videoUrl)
    /\ ValidateTranscriptionVariantsStructureAccepts(videoData.transcription)
    /\ ValidateTranscriptionStructureAccepts(videoData.translation)
    /\ ValidateAnalysisStructureAccepts(videoData.analysis)
    /\ ExercisesAccepted(videoData.exercises)
    /\ videoData.isAdultContent = Undefined
           \/ videoData.isAdultContent \in {"true", "false"}

\* validateProcessedVideo on a whole record: the record it returns.
ValidatedProcessedVideo(videoData) ==
    LET analysis == ValidateAnalysisStructure(videoData.analysis)
    IN [videoName |-> TrimText(videoData.videoName),
        videoUrl |-> TrimText(videoData.videoUrl),
        durationSeconds |-> videoData.durationSeconds,
        transcription |->
            ValidateTranscriptionVariantsStructure(videoData.transcription),
        translation |-> ValidateTranscriptionStructure(videoData.translation),
        analysis |-> analysis,
        exercises |-> ValidatedExercises(videoData.exercises),
        isAdultContent |-> IF videoData.isAdultContent = Undefined
                           THEN analysis.isAdultContent
                           ELSE videoData.isAdultContent]

(***************************************************************************)
(* The arguments the validators are applied to.                            *)
(***************************************************************************)
ChunkInputs ==
    [text : {"pen", Undefined},
     timestamp : {<<0, 1>>, NoTimestamp, <<5>>},
     time : {<<2, 3>>, NoTimestamp}]

TranscriptionInputs ==
    [fullText : {"en", "pen", Undefined, NotAString},
     text : {"ru", Undefined},
     chunks : SeqsUpTo(ChunkInputs, MaxViewChunks)]

ViewInputs ==
    [fullText : {"en", "pen", "ru", Undefined},
     text : {"en", Undefined},
     chunks : {<<>>}]

VariantsInputs == [plain : ViewInputs, phrases : ViewInputs, words : ViewInputs]

AnalysisInputs ==
    [cefrLevel : {"b1", "z9"},
     speechSpeed : {"Fast"},
     grammarComplexity : {"simple"},
     vocabularyComplexity : {"basic"},
     topics : SeqsUpTo({"Business", "TECHNOLOGY", "Science", "Health",
                        "Pets", "constructor"}, MaxTopics),
     isAdultContent : {"true", Undefined}]

\* An exercise of the type that passes the callback.
CleanExercise(type) ==
    [type |-> type,
     question |-> "pru",
     options |-> <<"ru", "ru", "pru", "ru">>,
     correctAnswer |-> 6,
     word |-> IF type = "vocabulary" THEN "en" ELSE Undefined]

ArbitraryExercises ==
    [type : {"vocabulary", "topic", "quiz"},
     question : {"ru", "en"},
     options : {<<>>, <<"ru", "ru">>, <<"ru", "ru", "ru">>,
                <<"ru", "ru", "ru", "ru">>, <<"ru", "ru", "ru", "ru", "ru">>,
                <<"en", "en", "en">>, <<"ru", "ws", "ru">>},
     correctAnswer : {0 - 2, 0, 3, 6, 8},
     word : {Undefined, "en", "ru"}]

\* v vocabulary, t topic and s statementCheck exercises that pass.
CleanExercises(v, t, s) ==
    [i \in 1..(v + t + s) |->
        CleanExercise(IF i <= v THEN "vocabulary"
                      ELSE IF i <= v + t THEN "topic"
                      ELSE "statementCheck")]

\* Lists of exercises that pass, with at most one arbitrary exercise after.
ExerciseLists ==
    {CleanExercises(v, t, s) \o tail :
        v \in 0..MaxVocabulary, t \in 0..MaxTopicExercises,
        s \in 0..MaxStatementChecks,
        tail \in {<<>>} \cup {<<e>> : e \in ArbitraryExercises}}

VideoDataInputs ==
    [videoName : {"pen", "ws"},
     videoUrl : {"en", Undefined},
     durationSeconds : {NoDuration, 10},
     transcription :
         {[plain |-> [fullText |-> f, text |-> "en", chunks |-> <<>>],
           phrases |-> [fullText |-> "en", text |-> "en", chunks |-> <<>>],
           words |-> [fullText |-> "pen", text |-> "en", chunks |-> <<>>]] :
             f \in {"en", "ru"}},
     translation : {[fullText |-> Undefined, text |-> "pru", chunks |-> <<>>]},
     analysis :
         {[cefrLevel |-> "b1", speechSpeed |-> "Fast",
           grammarComplexity |-> "simple", vocabularyComplexity |-> "basic",
           topics |-> t, isAdultContent |-> a] :
             t \in {<<>>, <<"Science", "Pets">>, <<"constructor">>},
             a \in {"true", Undefined}},
     exercises : {CleanExercises(4, 1, 1), CleanExercises(4, 1, 2),
                  CleanExercises(2, 1, 1)},
     isAdultContent : {Undefined, "false", NotAString}]

Validators ==
    {"validateTranscriptionStructure",
     "validateTranscriptionVariantsStructure",
     "validateAnalysisStructure",
     "validateExercisesStructure",
     "validateProcessedVideo"}

\* A validator called on an argument.
ValStart(fn, arg) ==
    [pc |-> "called", fn |-> fn, input |-> arg, arg |-> arg, results |-> <<>>]

\* A call of the validator returns a value; the value of the first call is
\* what the second call is applied to.
Returned(r, value) ==
    [r EXCEPT !.results = Append(@, value),
              !.arg = value,
              !.pc = IF Len(r.results) = 1 THEN "returned" ELSE "called"]

\* A call of the validator throws a ValidationError.
Thrown(r) == [r EXCEPT !.pc = "threw"]

ValStep(r) ==
    val' = r /\ UNCHANGED <<drvVars, pvVars, tr, llm, grp, mig, dbc, rus>>

ValidateTranscriptionStructureCalled ==
    /\ val.pc = "called"
    /\ val.fn = "validateTranscriptionStructure"
    /\ ValStep(IF ValidateTranscriptionStructureAccepts(val.arg)
               THEN Returned(val, ValidateTranscriptionStructure(val.arg))
               ELSE Thrown(val))

ValidateTranscriptionVariantsStructureCalled ==
    /\ val.pc = "called"
    /\ val.fn = "validateTranscriptionVariantsStructure"
    /\ ValStep(IF ValidateTranscriptionVariantsStructureAccepts(val.arg)
               THEN Returned(val,
                             ValidateTranscriptionVariantsStructure(val.arg))
               ELSE Thrown(val))

ValidateAnalysisStructureCalled ==
    /\ val.pc = "called"
    /\ val.fn = "validateAnalysisStructure"
    /\ ValStep(IF ValidateAnalysisStructureAccepts(val.arg)
               THEN Returned(val, ValidateAnalysisStructure(val.arg))
               ELSE Thrown(val))

ValidateExercisesStructureCalled ==
    /\ val.pc = "called"
    /\ val.fn = "validateExercisesStructure"
    /\ ValStep(IF ExercisesAccepted(val.arg)
               THEN Returned(val, ValidatedExercises(val.arg))
               ELSE Thrown(val))

ValidateProcessedVideoCalled ==
    /\ val.pc = "called"
    /\ val.fn = "validateProcessedVideo"
    /\ ValStep(IF ProcessedVideoAccepted(val.arg)
               THEN Returned(val, ValidatedProcessedVideo(val.arg))
               ELSE Thrown(val))

\* Every component but the named library component is at rest.
OnlyLib(own) ==
    /\ IdleLib(own)
    /\ pv = PvIdle
    /\ bucket = <<>>
    /\ faults = FALSE
    /\ proc = <<>>
    /\ mode = "local"
    /\ isProcessing = FALSE
    /\ mainpc = "none"
    /\ intervalArmed = FALSE
    /\ handlerOn = FALSE
    /\ sigpc = "none"
    /\ dbOpen = TRUE
    /\ exited = FALSE
    /\ ticks = 0
    /\ dropped = 0

InitValidate ==
    /\ \/ val \in {ValStart("validateTranscriptionStructure", x) :
                      x \in TranscriptionInputs}
       \/ val \in {ValStart("validateTranscriptionVariantsStructure", x) :
                      x \in VariantsInputs}
       \/ val \in {ValStart("validateAnalysisStructure", x) :
                      x \in AnalysisInputs}
       \/ val \in {ValStart("validateExercisesStructure", x) :
                      x \in ExerciseLists}
       \/ val \in {ValStart("validateProcessedVideo", x) :
                      x \in VideoDataInputs}
    /\ OnlyLib("val")
NextValidate ==
    \/ ValidateTranscriptionStructureCalled
    \/ ValidateTranscriptionVariantsStructureCalled
    \/ ValidateAnalysisStructureCalled
    \/ ValidateExercisesStructureCalled
    \/ ValidateProcessedVideoCalled
SpecValidate == InitValidate /\ [][NextValidate]_vars

(***************************************************************************)
(* analyzeText and generateExercises: the loop of attempts around one      *)
(* request to the model each.                                              *)
(***************************************************************************)
ANALYSIS_ATTEMPTS == 2

\* buildPrompt: whether the prompt carries the reinforcement, in every
\* attempt.
ReinforcementAlways(attempt) == attempt >= 1

\* buildPrompt: whether the prompt carries the reinforcement.
Reinforcement(attempt) == attempt > 1

\* The ways an attempt fails before there is a parsed value: the request is
\* rejected, the response is no string, extractJson finds no JSON, the
\* repair or JSON.parse throws.
ResponseFailures == {"rejected", "nonString", "noJson", "parseFailure"}

\* The objects JSON.parse gives analyzeText.
ParsedAnalyses ==
    [cefrLevel : {"b1", "z9"},
     speechSpeed : {"Fast"},
     grammarComplexity : {"simple"},
     vocabularyComplexity : {"basic", NotAString},
     topics : {<<>>, <<"Science", "Pets">>, <<"TECHNOLOGY", "Technology">>},
     isAdultContent : {"true", Undefined}]

\* The arrays JSON.parse gives generateExercises.
ParsedExercises ==
    {CleanExercises(v, 1, s) \o tail :
        v \in 2..4, s \in 0..2,
        tail \in {<<>>, <<[CleanExercise("topic") EXCEPT !.question = "en"]>>,
                  <<[CleanExercise("statementCheck")
                        EXCEPT !.correctAnswer = 8]>>}}

\* analyzeText: parsed after the defaults for topics and isAdultContent.
WithDefaults(parsed) ==
    [parsed EXCEPT
        !.topics = IF Len(@) = 0 THEN Slice(videoTopics, 1, 3) ELSE @,
        !.isAdultContent = IF @ \notin {"true", "false"} THEN "false" ELSE @]

NoValue == <<>>

\* transcription.plain.fullText of a video: of an empty transcription
\* (no words), or of one with words.
Transcripts == {"", "en"}

\* analyzeText or generateExercises, called on a transcript.
LlmStart(fn, text) ==
    [pc |-> "request",
     fn |-> fn,
     text |-> text,             \* the transcript the caller was given
     attempt |-> 1,
     lastError |-> "null",
     parsed |-> NoValue,        \* what the validator was last applied to
     result |-> NoValue,
     \* history, read by the properties only
     prompts |-> <<>>,          \* per request, whether it was reinforced
     failures |-> 0]

LlmStep(r) ==
    llm' = r /\ UNCHANGED <<drvVars, pvVars, tr, val, grp, mig, dbc, rus>>

\* The request of an attempt is sent with the prompt of buildPrompt.
Requested(r) == [r EXCEPT !.prompts = Append(@, Reinforcement(r.attempt))]

\* catch of an attempt: the next attempt, or the throw of lastError after
\* the loop.
Failed(r, error, attempts) ==
    LET r2 == [r EXCEPT !.lastError = error, !.failures = @ + 1]
    IN IF r.attempt + 1 <= attempts
       THEN [r2 EXCEPT !.attempt = @ + 1]
       ELSE [r2 EXCEPT !.pc = "threw"]

\* One attempt of analyzeText.
AnalyzeTextAttempt ==
    /\ llm.pc = "request"
    /\ llm.fn = "analyzeText"
    /\ LET r == Requested(llm)
       IN \/ \E error \in ResponseFailures :
               LlmStep(Failed(r, error, ANALYSIS_ATTEMPTS))
          \/ \E response \in ParsedAnalyses :
               LET parsed == WithDefaults(response)
                   r2 == [r EXCEPT !.parsed = parsed]
               IN LlmStep(IF ValidateAnalysisStructureAccepts(parsed)
                          THEN [r2 EXCEPT
                                   !.pc = "returned",
                                   !.result =
                                       ValidateAnalysisStructure(parsed)]
                          ELSE Failed(r2, "ValidationError",
                                      ANALYSIS_ATTEMPTS))

\* One attempt of generateExercises.
GenerateExercisesAttempt ==
    /\ llm.pc = "request"
    /\ llm.fn = "generateExercises"
    /\ LET r == Requested(llm)
       IN \/ \E error \in ResponseFailures :
               LlmStep(Failed(r, error, EXERCISE_ATTEMPTS))
          \/ \E parsed \in ParsedExercises :
               LET r2 == [r EXCEPT !.parsed = parsed]
               IN LlmStep(IF ExercisesAccepted(parsed)
                          THEN [r2 EXCEPT
                                   !.pc = "returned",
                                   !.result = ValidatedExercises(parsed)]
                          ELSE Failed(r2, "ValidationError",
                                      EXERCISE_ATTEMPTS))

InitLlm ==
    /\ llm \in {LlmStart(fn, text) :
                  fn \in {"analyzeText", "generateExercises"},
                  text \in Transcripts}
    /\ OnlyLib("llm")
NextLlm ==
    \/ AnalyzeTextAttempt
    \/ GenerateExercisesAttempt
SpecLlm == InitLlm /\ [][NextLlm]_vars

(***************************************************************************)
(* normalizeWordEntries, groupWordEntries and buildTranscriptionVariants.  *)
(* A word entry has one of the texts "w" (a word), "w." (a word ending a   *)
(* sentence) and "" (nothing but white space); times are whole numbers.    *)
(***************************************************************************)
MaxWords == 3
MaxStart == 2
WORD_MIN_WORDS == 1
WORD_MAX_WORDS == 1

Max(a, b) == IF a >= b THEN a ELSE b

\* The callback of entries.map in normalizeWordEntries, for an entry that
\* is kept.
NormalizedEntry(entry) ==
    [text |-> entry.text,
     start |-> entry.start,
     end |-> IF entry.end >= entry.start THEN entry.end ELSE entry.start]

\* Array.prototype.sort((a, b) => a.start - b.start): stable.
RECURSIVE SortByStart(_)
SortByStart(items) ==
    IF items = <<>> THEN <<>>
    ELSE LET sorted == SortByStart(SubSeq(items, 1, Len(items) - 1))
             last == items[Len(items)]
             before == SelectSeq(sorted, LAMBDA e : e.start <= last.start)
             after == SelectSeq(sorted, LAMBDA e : e.start > last.start)
         IN before \o <<last>> \o after

\* normalizeWordEntries(entries)
NormalizeWordEntries(entries) ==
    SortByStart([i \in 1..Len(SelectSeq(entries, LAMBDA e : e.text # "")) |->
                    NormalizedEntry(
                        SelectSeq(entries, LAMBDA e : e.text # "")[i])])

\* buffer.reduce((acc, item) => Math.max(acc, item.end), start)
RECURSIVE BufferEnd(_, _)
BufferEnd(buffer, start) ==
    IF buffer = <<>> THEN start
    ELSE Max(BufferEnd(SubSeq(buffer, 1, Len(buffer) - 1), start),
             buffer[Len(buffer)].end)

\* composeChunkText(words): the texts of the words, in order.
ComposeChunkText(words) ==
    LET kept == SelectSeq(words, LAMBDA w : w.text # "")
    IN [i \in 1..Len(kept) |-> kept[i].text]

\* flush() pushing no group for a buffer of one word.
FlushDropsSingleWords(buffer, groups) ==
    IF Len(buffer) <= 1 THEN groups
    ELSE Append(groups,
                [text |-> ComposeChunkText(buffer),
                 timestamp |-> <<buffer[1].start,
                                 BufferEnd(buffer, buffer[1].start)>>,
                 words |-> buffer])

\* flush() adding the buffer to the last group where there is one.
FlushIntoLastGroup(buffer, groups) ==
    IF buffer = <<>> \/ ComposeChunkText(buffer) = <<>> THEN groups
    ELSE IF groups = <<>>
      THEN <<[text |-> ComposeChunkText(buffer),
              timestamp |-> <<buffer[1].start,
                              BufferEnd(buffer, buffer[1].start)>>,
              words |-> buffer]>>
    ELSE LET merged == groups[Len(groups)].words \o buffer
         IN [groups EXCEPT
                ![Len(groups)] =
                    [text |-> ComposeChunkText(merged),
                     timestamp |-> <<merged[1].start,
                                     BufferEnd(merged, merged[1].start)>>,
                     words |-> merged]]

\* flush(): groups after it; buffer is empty after it.  words is the buffer
\* the group was made of, read by the properties only.
Flush(buffer, groups) ==
    IF buffer = <<>> \/ ComposeChunkText(buffer) = <<>> THEN groups
    ELSE Append(groups,
                [text |-> ComposeChunkText(buffer),
                 timestamp |-> <<buffer[1].start,
                                 BufferEnd(buffer, buffer[1].start)>>,
                 words |-> buffer])

\* normalized.forEach(...) from entry `index` on, then the last flush().
\* A duration of 0 stands for 0 and for null.
RECURSIVE GroupFrom(_, _, _, _, _)
GroupFrom(normalized, o, index, buffer, groups) ==
    IF index > Len(normalized) THEN Flush(buffer, groups)
    ELSE
      LET entry == normalized[index]
          pushed == Append(buffer, entry)
          hasNext == index < Len(normalized)
          next == normalized[index + 1]
          minWords == Max(1, o.minWords)
          maxWords == Max(minWords, o.maxWords)
          bufferStart == pushed[1].start
          bufferEnd == BufferEnd(pushed, bufferStart)
          duration == Max(0, bufferEnd - bufferStart)
          gap == Max(0, next.start - bufferEnd)
          reachedMaxWords == Len(pushed) >= maxWords
          endsSentence == entry.text = "w."
          enoughWords == Len(pushed) >= minWords
          reachedMinDuration ==
              o.minDuration = 0 \/ duration >= o.minDuration
          reachedMaxDuration ==
              o.maxDuration # 0 /\ duration >= o.maxDuration
          nextWouldExceedDuration ==
              /\ hasNext
              /\ o.maxDuration # 0
              /\ Max(bufferEnd, next.end) - bufferStart > o.maxDuration
          breakOnGap == hasNext /\ gap > o.maxGapSeconds
          isLast == index = Len(normalized)
      IN IF \/ breakOnGap
            \/ reachedMaxWords
            \/ reachedMaxDuration
            \/ nextWouldExceedDuration /\ reachedMinDuration
            \/ reachedMinDuration /\ enoughWords /\ endsSentence
            \/ isLast
         THEN GroupFrom(normalized, o, index + 1, <<>>,
                        Flush(pushed, groups))
         ELSE GroupFrom(normalized, o, index + 1, pushed, groups)

\* groupWordEntries(entries, overrides)
GroupWordEntries(entries, overrides) ==
    LET normalized == NormalizeWordEntries(entries)
        groups == GroupFrom(normalized, overrides, 1, <<>>, <<>>)
    IN IF Len(normalized) = 0 THEN <<>>
       ELSE IF Len(groups) = 0
         THEN [i \in 1..Len(normalized) |->
                  [text |-> <<normalized[i].text>>,
                   timestamp |-> <<normalized[i].start, normalized[i].end>>,
                   words |-> <<normalized[i]>>]]
       ELSE groups

\* The word entries handed over, in any order.
WordEntries ==
    [text : {"w", "w."}, start : 0..MaxStart, end : {1}]
        \cup {[text |-> "", start |-> 0, end |-> 1]}

\* The grouping parameters.
Overrides ==
    [minWords : {1, 2}, maxWords : {2}, maxGapSeconds : {0, 1},
     minDuration : {0, 1}, maxDuration : {0, 2}]

\* The word view grouped with the parameters of the phrase view.
WordOverridesOfPhrases(o) == o

\* The overrides buildTranscriptionVariants gives for the word view.
WordOverrides(o) ==
    [minWords |-> WORD_MIN_WORDS, maxWords |-> WORD_MAX_WORDS,
     maxGapSeconds |-> o.maxGapSeconds, minDuration |-> 0,
     maxDuration |-> 0]

GrpStart(fn, entries, overrides) ==
    [pc |-> "called", fn |-> fn, entries |-> entries,
     overrides |-> overrides, chunks |-> <<>>, wordChunks |-> <<>>]

GrpStep(r) ==
    grp' = r /\ UNCHANGED <<drvVars, pvVars, tr, llm, val, mig, dbc, rus>>

\* groupWordEntries(entries, overrides), called directly.
GroupWordEntriesCalled ==
    /\ grp.pc = "called"
    /\ grp.fn = "groupWordEntries"
    /\ GrpStep([grp EXCEPT
                   !.pc = "returned",
                   !.chunks = GroupWordEntries(grp.entries, grp.overrides)])

\* buildTranscriptionVariants(fullText, wordEntries): the chunks of the
\* phrase view and of the word view, with no fallback chunks given.
BuildTranscriptionVariantsCalled ==
    /\ grp.pc = "called"
    /\ grp.fn = "buildTranscriptionVariants"
    /\ LET normalizedWordEntries == NormalizeWordEntries(grp.entries)
       IN GrpStep([grp EXCEPT
                      !.pc = "returned",
                      !.chunks =
                          IF Len(normalizedWordEntries) # 0
                          THEN GroupWordEntries(normalizedWordEntries,
                                                grp.overrides)
                          ELSE <<>>,
                      !.wordChunks =
                          IF Len(normalizedWordEntries) # 0
                          THEN GroupWordEntries(normalizedWordEntries,
                                                WordOverrides(grp.overrides))
                          ELSE <<>>])

InitGroup ==
    /\ grp \in {GrpStart(fn, entries, o) :
                   fn \in {"groupWordEntries", "buildTranscriptionVariants"},
                   entries \in SeqsUpTo(WordEntries, MaxWords),
                   o \in Overrides}
    /\ OnlyLib("grp")
NextGroup ==
    \/ GroupWordEntriesCalled
    \/ BuildTranscriptionVariantsCalled
SpecGroup == InitGroup /\ [][NextGroup]_vars

(***************************************************************************)
(* runMigrations of database/db.js over the statements of migrations.sql.  *)
(* A schema gives each table its columns in order; a table with no column  *)
(* does not exist.                                                         *)
(***************************************************************************)
MaxRuns == 2

\* The columns of CREATE TABLE video_learning_content.
ContentColumns ==
    <<"id", "video_name", "video_url", "cefr_level", "speech_speed",
      "grammar_complexity", "vocabulary_complexity", "topics",
      "transcript_full", "transcript_chunks", "transcript_word_chunks",
      "transcript_translation_full", "transcript_translation_chunks",
      "exercises", "duration_seconds", "processed_at", "status">>

\* The columns of CREATE TABLE video_topics.
TopicColumns == <<"id", "video_id", "topic">>

\* migrationSQL.split(';'), trimmed, the empty pieces dropped.
\* references is the table of the FOREIGN KEY, the table itself when it has
\* none.
Statements ==
    <<[op |-> "createTableIfNotExists", table |-> "video_learning_content",
       columns |-> ContentColumns, references |-> "video_learning_content"],
      [op |-> "createTableIfNotExists", table |-> "video_topics",
       columns |-> TopicColumns, references |-> "video_learning_content"],
      [op |-> "addColumn", table |-> "video_learning_content",
       column |-> "transcript_word_chunks", after |-> "transcript_chunks"],
      [op |-> "addColumn", table |-> "video_learning_content",
       column |-> "transcript_translation_full",
       after |-> "transcript_word_chunks"],
      [op |-> "addColumn", table |-> "video_learning_content",
       column |-> "transcript_translation_chunks",
       after |-> "transcript_translation_full"],
      [op |-> "addColumn", table |-> "video_learning_content",
       column |-> "duration_seconds", after |-> "exercises"]>>

\* The ignorableCodes of a runMigrations that ends on a column that is
\* there already.
IgnorableCodesWithoutDupField == {"ER_DUP_KEYNAME", "ER_TABLE_EXISTS_ERROR"}

\* const ignorableCodes
IgnorableCodes ==
    {"ER_DUP_FIELDNAME", "ER_DUP_KEYNAME", "ER_TABLE_EXISTS_ERROR"}

Has(columns, column) == \E i \in 1..Len(columns) : columns[i] = column

\* ADD COLUMN column AFTER after
InsertAfter(columns, column, after) ==
    LET at == CHOOSE i \in 1..Len(columns) : columns[i] = after
    IN SubSeq(columns, 1, at) \o <<column>>
           \o SubSeq(columns, at + 1, Len(columns))

\* What the server does with a statement: the schema after it and the code
\* of the error, "OK" when there is none.
Execute(db, statement) ==
    IF statement.op = "createTableIfNotExists"
    THEN IF db[statement.table] # <<>> THEN [db |-> db, code |-> "OK"]
         ELSE IF /\ statement.references # statement.table
                 /\ db[statement.references] = <<>>
           THEN [db |-> db, code |-> "ER_CANNOT_ADD_FOREIGN"]
         ELSE [db |-> [db EXCEPT ![statement.table] = statement.columns],
               code |-> "OK"]
    ELSE IF db[statement.table] = <<>>
      THEN [db |-> db, code |-> "ER_NO_SUCH_TABLE"]
    ELSE IF Has(db[statement.table], statement.column)
      THEN [db |-> db, code |-> "ER_DUP_FIELDNAME"]
    ELSE IF ~Has(db[statement.table], statement.after)
      THEN [db |-> db, code |-> "ER_BAD_FIELD_ERROR"]
    ELSE [db |-> [db EXCEPT ![statement.table] =
                     InsertAfter(@, statement.column, statement.after)],
          code |-> "OK"]

\* The columns the ALTER TABLE statements add.
AddedColumns ==
    {"transcript_word_chunks", "transcript_translation_full",
     "transcript_translation_chunks", "duration_seconds"}

\* The columns saveVideoData names in its INSERT INTO
\* video_learning_content.
InsertColumns ==
    <<"video_name", "video_url", "cefr_level", "speech_speed",
      "grammar_complexity", "vocabulary_complexity", "topics",
      "transcript_full", "transcript_chunks", "transcript_word_chunks",
      "transcript_translation_full", "transcript_translation_chunks",
      "exercises", "duration_seconds", "status", "likes_count",
      "is_adult_content">>

\* What the server answers to that INSERT on a schema: an unknown column
\* is ER_BAD_FIELD_ERROR, a missing table ER_NO_SUCH_TABLE.
InsertCode(db) ==
    IF db.video_learning_content = <<>> THEN "ER_NO_SUCH_TABLE"
    ELSE IF \E i \in 1..Len(InsertColumns) :
               ~Has(db.video_learning_content, InsertColumns[i])
      THEN "ER_BAD_FIELD_ERROR"
    ELSE "OK"

\* The databases runMigrations meets: empty, migrated already, or made by
\* an earlier migrations.sql that had not all of the added columns.
Databases ==
    {[video_learning_content |-> <<>>, video_topics |-> <<>>]}
      \cup {[video_learning_content |->
                 SelectSeq(ContentColumns, LAMBDA c : c \notin missing),
             video_topics |-> topics] :
               missing \in SUBSET AddedColumns,
               topics \in {<<>>, TopicColumns}}

MigStart(db) ==
    [pc |-> "connect",
     db |-> db,
     run |-> 1,
     index |-> 0,               \* the statement of the for loop, 1-based
     error |-> "none",          \* the code runMigrations threw
     \* history, read by the properties only
     initial |-> db,
     schemas |-> <<>>,          \* the schema at the end of each run
     issued |-> 0,              \* statements sent in this run
     skipped |-> {}]            \* codes of the statements skipped

MigStep(r) ==
    mig' = r /\ UNCHANGED <<drvVars, pvVars, tr, llm, val, grp, dbc, rus>>

\* runMigrations is called: getConnection and readFile, which may fail.
MigrationsCalled ==
    /\ mig.pc = "connect"
    /\ \/ MigStep([mig EXCEPT !.pc = "query", !.index = 1, !.issued = 0])
       \/ MigStep([mig EXCEPT !.pc = "threw", !.error = "ECONNREFUSED"])

\* The end of the for loop after statement `index`: the next statement, or
\* the return of runMigrations, after which it is called once more.
NextStatement(r) ==
    IF r.index < Len(Statements) THEN [r EXCEPT !.index = @ + 1]
    ELSE LET r2 == [r EXCEPT !.schemas = Append(@, r.db)]
         IN IF r.run < MaxRuns
            THEN [r2 EXCEPT !.pc = "connect", !.run = @ + 1, !.index = 0]
            ELSE [r2 EXCEPT !.pc = "done"]

\* One turn of the for loop: conn.query(statement) and the catch.  The
\* query may also fail for a reason of its own, such as a lost connection.
MigrationStatement ==
    /\ mig.pc = "query"
    /\ LET outcome == Execute(mig.db, Statements[mig.index])
           r == [mig EXCEPT !.issued = @ + 1]
       IN \E code \in {outcome.code, "ECONNRESET"} :
            MigStep(IF code = "OK"
                    THEN NextStatement([r EXCEPT !.db = outcome.db])
                    ELSE IF code \in IgnorableCodes
                      THEN NextStatement([r EXCEPT !.skipped =
                                              @ \cup {code}])
                    ELSE [r EXCEPT !.pc = "threw", !.error = code])

InitMigrate ==
    /\ mig \in {MigStart(db) : db \in Databases}
    /\ OnlyLib("mig")
NextMigrate ==
    \/ MigrationsCalled
    \/ MigrationStatement
SpecMigrate == InitMigrate /\ [][NextMigrate]_vars

(***************************************************************************)
(* The connection of database/db.js (getConnection, closeConnection) under *)
(* one batch pass, runS3Pipeline: runMigrations and every saveVideoData    *)
(* begin with getConnection, and the finally of the pass calls             *)
(* closeConnection.  A handle is a positive number, 0 stands for null.     *)
(***************************************************************************)
MaxHandles == 3
MaxSavedVideos == 2

\* The module as loaded, let connection = null, and the pass at its start.
DbStart ==
    [pc |-> "migrate",
     gpc |-> "none",            \* position inside getConnection
     connection |-> 0,          \* let connection
     created |-> 0,             \* handles mysql.createConnection has given
     ended |-> {},              \* handles connection.end() was called on
     videos |-> 0,              \* videos.length
     i |-> 0,                   \* loop index, 1-based
     error |-> FALSE,           \* the pass is throwing
     \* history, read by the properties only
     held |-> 0,                \* connection when getConnection was called
     pinged |-> "none",         \* what connection.ping() did in this call
     creates |-> 0,             \* createConnection calls of this call
     outcome |-> "none",        \* how the last getConnection ended
     got |-> 0,                 \* the handle it returned
     closes |-> 0]              \* calls of closeConnection

DbStep(r) ==
    dbc' = r /\ UNCHANGED <<drvVars, pvVars, tr, llm, val, grp, mig, rus>>

\* getConnection() up to its first await.
GetConnectionCalled(r) ==
    [r EXCEPT !.gpc = IF r.connection # 0 THEN "ping" ELSE "create",
              !.held = r.connection, !.pinged = "none", !.creates = 0,
              !.outcome = "none", !.got = 0]

\* The two fs.mkdir of the pass, which may throw, then runMigrations():
\* const conn = await getConnection().
MigrationsGetConnection ==
    /\ dbc.pc = "migrate" /\ dbc.gpc = "none" /\ dbc.outcome = "none"
    /\ \E ok \in BOOLEAN :
        DbStep(IF ok THEN GetConnectionCalled(dbc)
               ELSE [dbc EXCEPT !.pc = "close", !.error = TRUE])

\* await connection.ping(): return connection, or the catch.
ConnectionPing ==
    /\ dbc.gpc = "ping"
    /\ \E ok \in BOOLEAN :
        DbStep(IF ok
               THEN [dbc EXCEPT !.gpc = "none", !.pinged = "ok",
                                !.outcome = "returned",
                                !.got = dbc.connection]
               ELSE [dbc EXCEPT !.gpc = "create", !.pinged = "failed",
                                !.connection = 0])

\* connection = await mysql.createConnection(config.database); return
\* connection.  A rejection leaves getConnection with the assignment not
\* done.
CreateConnection ==
    /\ dbc.gpc = "create"
    /\ \/ /\ dbc.created < MaxHandles
          /\ DbStep([dbc EXCEPT !.gpc = "none", !.creates = @ + 1,
                                !.created = @ + 1,
                                !.connection = dbc.created + 1,
                                !.outcome = "returned",
                                !.got = dbc.created + 1])
       \/ DbStep([dbc EXCEPT !.gpc = "none", !.creates = @ + 1,
                             !.outcome = "threw"])

\* The rest of runMigrations: the statements go through, or getConnection
\* or a statement has thrown and the pass goes to its catch and finally.
MigrationsDone ==
    /\ dbc.pc = "migrate" /\ dbc.gpc = "none" /\ dbc.outcome # "none"
    /\ \E ok \in BOOLEAN :
        DbStep(IF dbc.outcome = "returned" /\ ok
               THEN [dbc EXCEPT !.pc = "list", !.outcome = "none"]
               ELSE [dbc EXCEPT !.pc = "close", !.outcome = "none",
                                !.error = TRUE])

\* const videos = await s3Manager.listPendingVideos(); the return when
\* there is none.
ListVideos ==
    /\ dbc.pc = "list"
    /\ \E n \in 0..MaxSavedVideos, ok \in BOOLEAN :
        DbStep(IF ~ok THEN [dbc EXCEPT !.pc = "close", !.error = TRUE]
               ELSE IF n = 0 THEN [dbc EXCEPT !.pc = "close"]
               ELSE [dbc EXCEPT !.pc = "video", !.videos = n, !.i = 1])

\* The end of a turn of the for loop: an error thrown by the catch block
\* (moveToFailed) leaves the loop, otherwise the next video or the summary.
VideoHandled(r, escapes) ==
    IF escapes THEN [r EXCEPT !.pc = "close", !.error = TRUE]
    ELSE IF r.i < r.videos THEN [r EXCEPT !.i = @ + 1]
    ELSE [r EXCEPT !.pc = "close"]

\* A video up to saveVideoData, const conn = await getConnection(), or up
\* to the failure of an earlier stage.
VideoGetConnection ==
    /\ dbc.pc = "video" /\ dbc.gpc = "none" /\ dbc.outcome = "none"
    /\ \E reaches \in BOOLEAN, escapes \in BOOLEAN :
        DbStep(IF reaches THEN GetConnectionCalled(dbc)
               ELSE VideoHandled(dbc, escapes))

\* The rest of the video after getConnection has returned or thrown.
VideoDone ==
    /\ dbc.pc = "video" /\ dbc.gpc = "none" /\ dbc.outcome # "none"
    /\ \E escapes \in BOOLEAN :
        DbStep(VideoHandled([dbc EXCEPT !.outcome = "none"], escapes))

\* The pass after closeConnection: returned, or throwing the error of its
\* catch block.
PassEnded(r) ==
    [r EXCEPT !.pc = IF r.error THEN "threw" ELSE "done", !.closes = @ + 1]

\* closeConnection() leaving connection as it is.
ConnectionEndedHandleKept(r) ==
    PassEnded([r EXCEPT !.ended = @ \cup {r.connection}])

\* closeConnection() after await connection.end(): connection = null.
ConnectionEnded(r) ==
    PassEnded([r EXCEPT !.ended = @ \cup {r.connection}, !.connection = 0])

\* finally { await closeConnection() }: up to await connection.end(), or
\* through when no connection is held.
CloseConnection ==
    /\ dbc.pc = "close"
    /\ DbStep(IF dbc.connection # 0 THEN [dbc EXCEPT !.pc = "end"]
              ELSE PassEnded(dbc))

\* await connection.end() resolves.
ConnectionEnd ==
    /\ dbc.pc = "end"
    /\ DbStep(ConnectionEnded(dbc))

InitDb ==
    /\ dbc = DbStart
    /\ OnlyLib("dbc")
NextDb ==
    \/ MigrationsGetConnection
    \/ ConnectionPing
    \/ CreateConnection
    \/ MigrationsDone
    \/ ListVideos
    \/ VideoGetConnection
    \/ VideoDone
    \/ CloseConnection
    \/ ConnectionEnd
SpecDb == InitDb /\ [][NextDb]_vars

(***************************************************************************)
(* runRussianAudioBatchTranscription of index.js and the two settings of   *)
(* config.transcription it changes for the time of its run.                *)
(***************************************************************************)
MaxAudioFiles == 2

\* Values of config.transcription.language.
Languages == {"english", "russian", Undefined}

\* Values of config.transcription.openaiModel.
OpenaiModels ==
    {"small.en", "medium.en", ".en", "small.EN", "small", "", Undefined}

\* originalModel.endsWith('.en')
EndsWithEn(model) == model \in {"small.en", "medium.en", ".en"}

\* originalModel.replace(/\.en$/i, '')
ReplaceEn(model) ==
    CASE model = "small.en" -> "small"
      [] model = "medium.en" -> "medium"
      [] model = ".en" -> ""
      [] model = "small.EN" -> "small"
      [] OTHER -> model

\* The assignments to config.transcription before the loop.
RussianConfig(r) ==
    [r EXCEPT
        !.language = "russian",
        !.openaiModel =
            IF IsString(r.openaiModel) /\ EndsWithEn(r.openaiModel)
            THEN IF ReplaceEn(r.openaiModel) # ""
                 THEN ReplaceEn(r.openaiModel) ELSE "small"
            ELSE IF r.openaiModel \in {"", Undefined} THEN "small"
            ELSE r.openaiModel,
        !.originalLanguage = r.language,
        !.originalModel = r.openaiModel,
        !.mutated = TRUE]

\* The finally block giving back the language only.
RestoredLanguageOnly(r) ==
    [r EXCEPT !.language = r.originalLanguage]

\* The finally block.
Restored(r) ==
    [r EXCEPT !.language = r.originalLanguage,
              !.openaiModel = r.originalModel]

RusStart(language, model) ==
    [pc |-> "mkdir",
     language |-> language,         \* config.transcription.language
     openaiModel |-> model,         \* config.transcription.openaiModel
     originalLanguage |-> Undefined,
     originalModel |-> Undefined,
     files |-> 0,                   \* audioFiles.length
     i |-> 0,                       \* loop index, 1-based
     blocks |-> 0,                  \* transcriptBlocks.length
     \* history, read by the properties only
     before |-> [language |-> language, openaiModel |-> model],
     mutated |-> FALSE,             \* the settings were assigned to
     seen |-> {}]                   \* the settings the transcriptions saw

RusStep(r) ==
    rus' = r /\ UNCHANGED <<drvVars, pvVars, tr, llm, val, grp, mig, dbc>>

\* await fs.mkdir(config.outputDir, { recursive: true })
RusMkdir ==
    /\ rus.pc = "mkdir"
    /\ \E ok \in BOOLEAN :
        RusStep([rus EXCEPT !.pc = IF ok THEN "readdir" ELSE "threw"])

\* await fs.readdir(audioDir) and the filter for mp3 files; the return
\* when there is none; the assignments to config.transcription.
RusReaddir ==
    /\ rus.pc = "readdir"
    /\ \E ok \in BOOLEAN, n \in 0..MaxAudioFiles :
        RusStep(IF ~ok THEN [rus EXCEPT !.pc = "threw"]
                ELSE IF n = 0 THEN [rus EXCEPT !.pc = "returned"]
                ELSE RussianConfig([rus EXCEPT !.pc = "transcribe",
                                               !.files = n, !.i = 1]))

\* One turn of the for loop: await transcribeAudio(audioPath) under the
\* settings of the moment, then the block of the file or, in the catch,
\* the block of its error; a throw of the catch block itself leaves the
\* loop.  The finally block follows the last turn and such a throw with no
\* await between.
RusTranscribe ==
    /\ rus.pc = "transcribe"
    /\ \E outcome \in {"block", "errorBlock", "catchThrows"} :
        LET r == [rus EXCEPT !.seen = @ \cup {<<rus.language,
                                                rus.openaiModel>>}]
        IN RusStep(
              IF outcome = "catchThrows"
              THEN Restored([r EXCEPT !.pc = "threw"])
              ELSE IF r.i < r.files
                THEN [r EXCEPT !.i = @ + 1, !.blocks = @ + 1]
              ELSE Restored([r EXCEPT !.pc = "write", !.blocks = @ + 1]))

\* await fs.writeFile(outputFilePath, combinedTranscript, 'utf8')
RusWriteFile ==
    /\ rus.pc = "write"
    /\ \E ok \in BOOLEAN :
        RusStep([rus EXCEPT !.pc = IF ok THEN "returned" ELSE "threw"])

InitRus ==
    /\ rus \in {RusStart(language, model) :
                   language \in Languages, model \in OpenaiModels}
    /\ OnlyLib("rus")
NextRus ==
    \/ RusMkdir
    \/ RusReaddir
    \/ RusTranscribe
    \/ RusWriteFile
SpecRus == InitRus /\ [][NextRus]_vars

(***************************************************************************)
(* Properties of the S3 drivers.                                           *)
(***************************************************************************)
\* The object a listed key held when the pass began.
VideoId(k) == CHOOSE n \in 1..Len(CandidateVideos) : CandidateVideos[n] = k

Under(prefix, id) ==
    \E k \in DOMAIN bucket : k[1] = prefix /\ bucket[k].id = id

\* The handling of the current video is over: moveToCompleted or
\* moveToFailed has returned and the result is recorded.
Finished(p) == proc[p].pc = "finally"

\* After moveToProcessing returned and before the final move is over.
MidVideo(p) ==
    proc[p].pc \in {"download", "process", "mtcCopy", "mtcDelete",
                    "catch", "mtfCopy", "mtfDelete"}

\* C1: once the handling of a video has finished, whatever the store's copy
\* and delete calls did, its object is under exactly one of completed/ and
\* failed/, and under neither pending/ nor processing/.
C1_ExactlyOnePrefix ==
    \A p \in Procs :
        Finished(p) =>
            LET id == VideoId(proc[p].videos[proc[p].i].key)
            IN /\ Under(completedPrefix, id) # Under(failedPrefix, id)
               /\ ~Under(pendingPrefix, id)
               /\ ~Under(processingPrefix, id)

\* C2: after moveToProcessing has returned, exactly one of moveToCompleted
\* and moveToFailed is invoked, with the key moveToProcessing returned:
\* moveToCompleted iff download and processVideo both succeeded,
\* moveToFailed iff one of them raised.
C2_ExactlyOneFinalMove ==
    \A p \in Procs :
        LET r == proc[p]
        IN /\ Len(r.calls) <= 1
           /\ Finished(p) =>
                /\ Len(r.calls) = 1
                /\ r.calls[1].key = r.mtpKey
                /\ r.mtpKey # NoKey
                /\ r.calls[1].fn = "moveToCompleted"
                      <=> (r.dl = "ok" /\ r.pvr = "ok")
                /\ r.calls[1].fn = "moveToFailed"
                      <=> (r.dl = "err" \/ r.pvr = "err")

C2_Witness ==
    \E p \in Procs :
        /\ Finished(p)
        /\ proc[p].dl = "ok" /\ proc[p].pvr = "err"
        /\ proc[p].calls = <<[fn |-> "moveToFailed", key |-> proc[p].mtpKey]>>

\* C3: no object is downloaded and processed by two workers.
C3_NoObjectProcessedTwice ==
    \A p, q \in Procs :
        p # q => proc[p].processed \cap proc[q].processed = {}

\* C9: the videos of the listing are handled once each, in listing order,
\* one after another; when the pass is over the summary holds one result
\* per listed video, in order, whatever failed in between.
C9_EveryVideoOnceInOrder ==
    \A p \in Procs :
        LET r == proc[p]
        IN /\ Len(r.handled) = r.i
           /\ \A j \in 1..r.i : r.handled[j] = r.videos[j].key
           /\ Len(r.results) =
                IF r.pc \in {"finally", "close", "done", "crashed"}
                THEN r.i ELSE IF r.i = 0 THEN 0 ELSE r.i - 1
           /\ \A j \in 1..Len(r.results) :
                r.results[j].file = r.videos[j].name
           /\ r.pc \in {"close", "done", "crashed"} /\ r.listed
                => Len(r.results) = Len(r.videos)

C9_Witness ==
    \E p \in Procs :
        /\ proc[p].pc = "done"
        /\ Len(proc[p].videos) >= 2
        /\ proc[p].results[1].status = "failed"
        /\ proc[p].results[2].status = "success"

\* A poll cycle is running in slot p.
Running(p) == proc[p].pc # "idle"

\* The handling of a video is under way in slot p.
InVideo(p) == proc[p].pc \in {"mtpCopy", "mtpDelete"} \/ MidVideo(p)

NoOverlap == Cardinality({p \in Procs : Running(p)}) <= 1

\* A tick that fires while a cycle is running changes nothing but the
\* counters: no slot, no object and not the flag.
TickDuringCycleIsDropped ==
    (ticks' # ticks /\ \E p \in Procs : Running(p)) =>
        /\ proc' = proc
        /\ bucket' = bucket
        /\ isProcessing' = isProcessing
        /\ dropped' = dropped + 1

\* A cycle starts only in the step of the initial poll or of a tick.
NoLateStart ==
    (\E p \in Procs : ~Running(p) /\ Running(p)') =>
        ticks' = ticks + 1 \/ mainpc = "initialPoll"

\* C4: in polling mode at most one poll cycle runs at any time; a tick
\* that fires while a cycle is running does no listing, move, download or
\* processing, and no cycle starts later on its behalf.
C4_CyclesSerialized ==
    /\ []NoOverlap
    /\ [][TickDuringCycleIsDropped /\ NoLateStart]_vars

C4_Witness ==
    /\ dropped >= 2
    /\ \E p \in Procs : proc[p].pc = "process"

\* C5: in polling mode the process never exits while the handling of a
\* video is under way, whenever the interrupt arrives.
C5_NoExitMidVideo ==
    exited => \A p \in Procs : ~InVideo(p)

\* processVideo is over, by return or by throw.
PvOver == pv.pc \in {"returned", "threw"}

\* C6: after processVideo returns or throws, neither the extracted WAV,
\* nor the normalized MP4 (under either of its names), nor the HLS output
\* directory is on disk.
C6_NoIntermediateArtifacts ==
    PvOver => pv.disk \cap {"wav", "normalized", "safe", "hlsDir"} = {}

\* C7: whenever processVideo throws, the file at videoPath still exists,
\* in every configuration.
C7_SourceKeptOnFailure ==
    pv.pc = "threw" => "videoPath" \in pv.disk

\* C8: in both variants saveVideoData is called only with a record that
\* validateProcessedVideo has accepted, and nothing is saved or written
\* for a record it rejects.
C8_OnlyValidatedRecordsSaved ==
    /\ pv.pc # "idle" /\ pv.saved =>
          pv.row.validated /\ ValidateProcessedVideoAccepts(pv.row)
    /\ pv.pc # "idle" /\ pv.written =>
          pv.json.validated /\ ValidateProcessedVideoAccepts(pv.json)

\* C10: with HLS enabled, once HLS encoding or the HLS upload has failed
\* the plain MP4 is uploaded; the output stage throws only when that
\* upload fails, and otherwise videoUrl, in the saved row too, is the MP4
\* URL.
C10_HlsFailureFallsBackToMp4 ==
    pv.pc # "idle" /\ pv.hlsEnabled /\ pv.hlsFailed =>
        /\ pv.failedAt \notin {"hls", "hlsUpload", "fallback"}
        /\ pv.pc = "mp4" \/ pv.failedAt = "mp4" \/ pv.primaryUrl = "mp4Url"
        /\ pv.saved => pv.row.videoUrl = "mp4Url"

C10_Witness ==
    /\ pv.pc = "returned"
    /\ pv.hlsEnabled /\ pv.hlsFailed
    /\ pv.saved /\ pv.row.videoUrl = "mp4Url"
    /\ pv.written

\* C11: the Translation returned has one chunk per chunk of the phrase
\* view, each with the timestamp of the phrase chunk at its position,
\* whatever the responses were and however many batches there were.
C11_TranslationAligned ==
    tr.pc = "returned" =>
        /\ Len(tr.result) = Len(tr.transcription)
        /\ \A i \in 1..Len(tr.result) :
              tr.result[i].timestamp = tr.transcription[i].timestamp

C11_Witness ==
    /\ tr.pc = "returned"
    /\ Len(tr.chunked) = 2
    /\ Len(tr.result) = MaxChunks
    /\ \E i \in 1..Len(tr.failures) : tr.failures[i] > 0
    /\ tr.retried # {}

\* C12: a batch gets at most MAX_ATTEMPTS requests, and no request after
\* the first attempt that gave an aligned result; when MAX_ATTEMPTS
\* attempts of a batch have failed translateTranscription throws, with no
\* Translation returned and no request sent for a later batch.
C12_BoundedAttempts ==
    tr.pc # "idle" =>
        /\ \A b \in 1..Len(tr.requests) :
              /\ tr.requests[b] <= MAX_ATTEMPTS
              /\ tr.failures[b] <= tr.requests[b]
              /\ b < tr.i \/ tr.pc = "returned" =>
                    tr.requests[b] = tr.failures[b] + 1
              /\ tr.pc = "line" /\ b = tr.i =>
                    tr.requests[b] = tr.failures[b] + 1
        /\ Len(tr.requests) = tr.i
        /\ tr.pc = "threw" =>
              /\ tr.failures[tr.i] = MAX_ATTEMPTS
              /\ tr.requests[tr.i] = MAX_ATTEMPTS
              /\ tr.result = <<>>
        /\ tr.pc = "returned" /\ tr.chunks # <<>> =>
              Len(tr.requests) = Len(tr.chunked)

C12_Witness ==
    /\ tr.pc = "threw"
    /\ tr.i = 1
    /\ Len(tr.chunked) = 2
    /\ tr.requests = <<MAX_ATTEMPTS>>

\* C14 as stated: every chunk text of the Translation returned has a
\* Cyrillic letter, whatever the batch and single-line responses were.
C14_EveryTextCyrillic ==
    tr.pc = "returned" =>
        \A i \in 1..Len(tr.result) : HasCyrillic(tr.result[i].text)

\* C14: a chunk text of the Translation returned has a Cyrillic letter
\* unless the single-line retry for its line gave no Cyrillic text, or its
\* source text is empty and no retry is sent; the text kept is then the
\* batch's text for the line or the source text.
C14_CyrillicUnlessRetryFailed ==
    tr.pc = "returned" =>
        \A i \in 1..Len(tr.result) :
            \/ HasCyrillic(tr.result[i].text)
            \/ i \in tr.retried
            \/ tr.chunks[i].text = ""

C14_Witness ==
    /\ tr.pc = "returned"
    /\ \E i \in 1..Len(tr.result) :
          ~HasCyrillic(tr.result[i].text) /\ i \in tr.retried
    /\ \E i \in 1..Len(tr.result) :
          HasCyrillic(tr.result[i].text) /\ i \notin tr.retried

\* C15: a list validateExercisesStructure accepts has 3 or 4 vocabulary
\* exercises, exactly 1 topic exercise, at least 1 statementCheck exercise,
\* 5 or 6 exercises in all, and in each exercise an integer correctAnswer
\* from 0 to below the number of options; a list breaking one of these is
\* rejected.
C15_WellFormed(exercises) ==
    /\ CountOfType(exercises, "vocabulary") \in {3, 4}
    /\ CountOfType(exercises, "topic") = 1
    /\ CountOfType(exercises, "statementCheck") >= 1
    /\ Len(exercises) \in {5, 6}
    /\ \A i \in 1..Len(exercises) :
          /\ IsInteger(exercises[i].correctAnswer)
          /\ 0 <= exercises[i].correctAnswer
          /\ exercises[i].correctAnswer < 2 * Len(exercises[i].options)

C15_AcceptedExercisesWellFormed ==
    val.fn = "validateExercisesStructure" =>
        /\ Len(val.results) >= 1 => C15_WellFormed(val.results[1])
        /\ Len(val.results) >= 1 \/ val.pc = "threw" =>
              (~C15_WellFormed(val.input) => val.results = <<>>)

\* C16: an analysis validateAnalysisStructure returns has at most 3 topics,
\* no two of them equal, each one an entry of the topic catalog as the
\* catalog spells it.
C16_TopicsFromCatalog ==
    val.fn = "validateAnalysisStructure" /\ Len(val.results) >= 1 =>
        LET topics == val.results[1].topics
        IN /\ Len(topics) <= 3
           /\ \A i, j \in 1..Len(topics) : topics[i] = topics[j] => i = j
           /\ \A i \in 1..Len(topics) :
                 \E k \in 1..Len(videoTopics) : topics[i] = videoTopics[k]

\* The trimmed fullText of a view as validateTranscriptionStructure reads
\* it.
C17_FullText(view) ==
    TrimText(Coalesce(view.fullText, Coalesce(view.text, "")))

C17_SameFullText(variants) ==
    /\ variants.phrases.fullText = variants.plain.fullText
    /\ variants.words.fullText = variants.plain.fullText

\* C17: validateTranscriptionVariantsStructure throws whenever the trimmed
\* fullText of the phrases view or of the words view differs from that of
\* the plain view; the variants it returns, and those of a record
\* validateProcessedVideo returns, have one fullText in all three views.
C17_VariantsShareFullText ==
    /\ val.fn = "validateTranscriptionVariantsStructure" =>
          /\ /\ Len(val.results) >= 1 \/ val.pc = "threw"
             /\ \/ C17_FullText(val.input.phrases)
                       # C17_FullText(val.input.plain)
                \/ C17_FullText(val.input.words)
                       # C17_FullText(val.input.plain)
             => val.pc = "threw" /\ val.results = <<>>
          /\ Len(val.results) >= 1 =>
                /\ C17_SameFullText(val.results[1])
                /\ val.results[1].fullText = val.results[1].plain.fullText
    /\ val.fn = "validateProcessedVideo" /\ Len(val.results) >= 1 =>
          C17_SameFullText(val.results[1].transcription)

C17_Witness ==
    /\ val.fn = "validateTranscriptionVariantsStructure"
    /\ val.pc = "returned"
    /\ val.input.plain.fullText = "pen"
    /\ val.input.phrases.fullText = "en"
    /\ val.input.words.fullText = Undefined

\* C19: a validator applied to a value it returned returns again, and
\* returns an equal value.
C19_ValidatorsIdempotent ==
    val.pc # "idle" =>
        /\ val.pc = "threw" => val.results = <<>>
        /\ Len(val.results) = 2 => val.results[1] = val.results[2]

\* C13: analyzeText and generateExercises send at most 2 requests each,
\* the first with the plain prompt and the second with the reinforced one;
\* what they return is what the validator returned for the parsed response
\* it accepted; they throw exactly when both attempts have failed, whatever
\* the failures were.
C13_TwoAttempts ==
    llm.pc # "idle" =>
        /\ Len(llm.prompts) <= 2
        /\ \A i \in 1..Len(llm.prompts) : llm.prompts[i] <=> i = 2
        /\ llm.failures <= Len(llm.prompts)
        /\ llm.pc = "returned" =>
              /\ Len(llm.prompts) = llm.failures + 1
              /\ IF llm.fn = "analyzeText"
                 THEN /\ ValidateAnalysisStructureAccepts(llm.parsed)
                      /\ llm.result = ValidateAnalysisStructure(llm.parsed)
                 ELSE /\ ExercisesAccepted(llm.parsed)
                      /\ llm.result = ValidatedExercises(llm.parsed)
        /\ llm.pc = "threw" <=> llm.failures = 2
        /\ llm.pc = "threw" => llm.result = NoValue /\ llm.lastError # "null"
        /\ llm.pc = "request" => Len(llm.prompts) = llm.failures

C13_Witness ==
    /\ llm.pc = "returned"
    /\ llm.fn = "generateExercises"
    /\ llm.prompts = <<FALSE, TRUE>>
    /\ llm.lastError = "ValidationError"

\* The words of the chunks, chunk after chunk.
RECURSIVE C18_WordsOf(_)
C18_WordsOf(chunks) ==
    IF chunks = <<>> THEN <<>>
    ELSE C18_WordsOf(SubSeq(chunks, 1, Len(chunks) - 1))
             \o chunks[Len(chunks)].words

C18_Partition(chunks, normalized) ==
    /\ C18_WordsOf(chunks) = normalized
    /\ \A i \in 1..Len(chunks) :
          /\ chunks[i].words # <<>>
          /\ Len(chunks[i].text) = Len(chunks[i].words)
          /\ \A j \in 1..Len(chunks[i].words) :
                chunks[i].text[j] = chunks[i].words[j].text

\* C18: the chunks of groupWordEntries, read in order, are the normalized
\* word list (the entries with text, sorted by start) cut into groups of
\* one word or more, whatever the grouping parameters; the phrase view and
\* the word view of one input both hold every word once; no entries give
\* no chunks.
C18_ChunksPartitionWords ==
    grp.pc = "returned" =>
        LET normalized == NormalizeWordEntries(grp.entries)
        IN /\ C18_Partition(grp.chunks, normalized)
           /\ grp.fn = "buildTranscriptionVariants" =>
                 /\ C18_Partition(grp.wordChunks, normalized)
                 /\ Len(C18_WordsOf(grp.chunks))
                        = Len(C18_WordsOf(grp.wordChunks))
           /\ normalized = <<>> => grp.chunks = <<>>
           /\ normalized # <<>> => Len(grp.chunks) >= 1

C18_Witness ==
    /\ grp.pc = "returned"
    /\ grp.fn = "buildTranscriptionVariants"
    /\ Len(grp.entries) = 3
    /\ Len(grp.wordChunks) = 2
    /\ Len(grp.chunks) = 1
    /\ grp.entries[1].start > grp.entries[3].start

\* C20: on an empty database and on a migrated one, runMigrations run twice
\* throws no error of a statement and leaves after the second run the
\* schema the first run left; a statement failing with ER_DUP_FIELDNAME,
\* ER_DUP_KEYNAME or ER_TABLE_EXISTS_ERROR is skipped and the statements
\* after it are still sent; any other error of a statement ends
\* runMigrations with that error.
C20_MigrationsIdempotent ==
    mig.pc # "idle" =>
        /\ mig.skipped \subseteq IgnorableCodes
        /\ mig.pc = "threw" =>
              /\ mig.error \in {"ECONNREFUSED", "ECONNRESET"}
              /\ mig.error \notin IgnorableCodes
        /\ mig.pc \in {"connect", "done"} /\ mig.schemas # <<>> =>
              /\ mig.issued = Len(Statements)
              /\ mig.db = mig.schemas[Len(mig.schemas)]
        /\ \A i \in 1..Len(mig.schemas) : mig.schemas[i] = mig.schemas[1]
        /\ mig.pc = "done" => Len(mig.schemas) = MaxRuns

C20_Witness ==
    /\ mig.pc = "done"
    /\ mig.initial.video_learning_content = <<>>
    /\ "ER_DUP_FIELDNAME" \in mig.skipped
    /\ mig.db.video_learning_content = ContentColumns
    /\ mig.db.video_topics = TopicColumns

\* The stages processVideo and its variants have invoked so far.
Invoked(fn) == \E i \in 1..Len(pv.calls) : pv.calls[i] = fn

\* C21: in the no-exercises variant generateExercises is never invoked
\* and the record inserted and written has an empty exercises array; in the
\* transcription-only variant translateTranscription, analyzeText,
\* generateExercises and saveVideoData are never invoked, no row is
\* inserted, and the only writeFile is that of the transcription JSON.
C21_VariantsSkipStages ==
    /\ pv.pc # "idle" /\ pv.variant = "noExercises" =>
          /\ ~Invoked("generateExercises")
          /\ pv.contentRow => pv.row.exercises = EmptyExercises
          /\ pv.written => pv.json.exercises = EmptyExercises
          /\ ~pv.transcriptionWritten
    /\ pv.pc # "idle" /\ pv.variant = "transcriptionOnly" =>
          /\ \A fn \in {"translateTranscription", "analyzeText",
                        "generateExercises", "validateProcessedVideo",
                        "saveVideoData"} : ~Invoked(fn)
          /\ ~pv.contentRow /\ pv.topicRows = 0 /\ ~pv.saved
          /\ ~pv.written
          /\ Invoked("writeFile") =>
                 pv.transcriptionWritten \/ pv.failedAt = "write"

C21_Witness ==
    /\ pv.pc = "returned"
    /\ pv.variant = "transcriptionOnly"
    /\ pv.transcriptionWritten
    /\ pv.transcriptionUrl # "none"

\* C22: once processVideo has thrown, the database holds no row of
\* video_learning_content and none of video_topics for the video and no
\* JSON file was written for it; rows exist only after every stage, the
\* topic inserts and the JSON write included, has succeeded.
C22_NoRowAfterFailure ==
    /\ pv.pc = "threw" /\ pv.variant = "full" =>
          ~pv.contentRow /\ pv.topicRows = 0 /\ ~pv.written
    /\ pv.pc # "idle" /\ pv.variant = "full" /\ PvOver
       /\ (pv.contentRow \/ pv.topicRows > 0) =>
          pv.success /\ pv.topicRows = pv.topics /\ pv.written

\* The text of line j of a batch comes from an item with the line's index
\* or is the line's source text, or is the Cyrillic text of the line's
\* single-line retry when the retry is over.
C23_FromOwnLine(text, chunk, offered, j, retryOver) ==
    \/ text \in offered[j]
    \/ text = chunk[j].text
    \/ retryOver /\ HasCyrillic(text)

\* C23: whatever the batch response holds (items in any order, any index
\* values, duplicate indices, empty texts), the text of line i is the
\* non-empty text of an item whose index is i, the result of the
\* single-line retry for line i, or the source text of line i; never the
\* source text of another line or the text of an item with another index.
C23_TextsFromOwnLine ==
    tr.pc = "line" =>
          \A j \in 1..Len(tr.aligned) :
              C23_FromOwnLine(tr.aligned[j], tr.chunked[tr.i], tr.offered,
                              j, j < tr.line)

\* C24: once runMigrations has returned on a database that was empty,
\* video_learning_content has every column the INSERT of saveVideoData
\* names, likes_count and is_adult_content included, so that the INSERT
\* does not fail for an unknown column.
C24_InsertColumnsExist ==
    /\ mig.pc # "idle"
    /\ mig.initial = [video_learning_content |-> <<>>, video_topics |-> <<>>]
    /\ mig.schemas # <<>>
    => /\ \A i \in 1..Len(InsertColumns) :
             Has(mig.schemas[1].video_learning_content, InsertColumns[i])
       /\ InsertCode(mig.schemas[1]) = "OK"

\* C25: two distinct objects listed under pending/ are never moved to the
\* same key under processing/, completed/ or failed/: no step of a move
\* puts the object of one video on a key that holds the object of another.
C25_NoMoveOverwrites ==
    [][\A k \in DOMAIN bucket \cap DOMAIN bucket' :
          bucket'[k].id = bucket[k].id]_vars

\* C26: when the driver has finished handling a video, by success, by a
\* failure of processVideo or by a failure of the download, no local copy
\* of the downloaded source, complete or partial, is left in the temp
\* directory.  (Read where the loop has ended: the file of the last video.)
C26_NoLocalCopyLeft ==
    \A p \in Procs :
        proc[p].pc \in {"close", "done", "crashed", "pollFinally"} =>
            proc[p].file = 0

\* prepareVideoOutputs has returned to processVideo.
C27_OutputsPrepared ==
    \/ pv.pc \in {"save", "topics", "write", "writeTranscription",
                  "returned"}
    \/ /\ pv.pc \in {"finally", "threw"}
       /\ pv.failedAt \in {"validate", "save", "topics", "write"}

\* C27: whenever HLS encoding and the upload of the HLS directory have
\* both succeeded, the videoUrl prepareVideoOutputs returns is the master
\* playlist URL, also when includeMp4Fallback is on and the upload of the
\* MP4 fallback fails; it is the MP4 URL only when HLS is disabled or the
\* encoding or the HLS upload failed.
C27_MasterPlaylistUrl ==
    pv.pc # "idle" /\ C27_OutputsPrepared =>
        /\ pv.hlsDone => pv.primaryUrl = "hlsUrl"
        /\ pv.primaryUrl = "mp4Url" => ~pv.hlsEnabled \/ pv.hlsFailed
        /\ pv.contentRow /\ pv.hlsDone => pv.row.videoUrl = "hlsUrl"

\* isProcessing is set exactly while a cycle of poll is running.
LockFollowsCycle == isProcessing <=> \E p \in Procs : Running(p)

\* No invocation of poll ends by a rejection.
PollNeverRejects == \A p \in Procs : proc[p].pc # "crashed"

\* Only the SIGINT handler disarms the interval.
IntervalStaysArmed ==
    intervalArmed /\ ~intervalArmed' => sigpc = "none" /\ sigpc' = "closing"

\* A tick that fires when no cycle is running starts one.
TickStartsCycle ==
    (ticks' # ticks /\ ~\E p \in Procs : Running(p)) =>
        /\ isProcessing'
        /\ \E p \in Procs : proc'[p].pc = "list"
        /\ dropped' = dropped

\* C28: every poll cycle ends with isProcessing reset to false, on an
\* empty listing, a listing error and after any number of per-video
\* failures; poll never rejects and the interval stays armed, so that the
\* first tick after a cycle has ended starts a new cycle and the lock is
\* never held by a finished cycle.
C28_LockReleasedOnEveryExit ==
    /\ [](mode = "poll" => LockFollowsCycle /\ PollNeverRejects)
    /\ [][mode = "poll" => IntervalStaysArmed /\ TickStartsCycle]_vars

\* A tick has started a cycle after a cycle in which the video failed.
C28_Witness ==
    /\ mode = "poll"
    /\ ticks >= 1 /\ dropped = 0
    /\ isProcessing
    /\ \E p \in Procs : proc[p].pc = "list"
    /\ \E k \in DOMAIN bucket : k[1] = failedPrefix

\* The place of a call in the order of the stages of processVideo; the
\* calls of prepareVideoOutputs make up one stage.
C29_StageRank(fn) ==
    CASE fn = "extractAudio" -> 1
      [] fn = "transcribeAudio" -> 2
      [] fn = "translateTranscription" -> 3
      [] fn = "analyzeText" -> 4
      [] fn = "generateExercises" -> 5
      [] fn = "normalizeVideoAudio" -> 6
      [] fn = "rename" -> 7
      [] fn \in {"generateHlsPackages", "uploadHlsDirectory",
                 "uploadVideo"} -> 8
      [] fn = "validateProcessedVideo" -> 9
      [] fn = "saveVideoData" -> 10
      [] fn = "writeFile" -> 11

\* The stage in which processVideo failed.
C29_FailedRank(stage) ==
    CASE stage = "extract" -> 1
      [] stage = "transcribe" -> 2
      [] stage = "translate" -> 3
      [] stage = "analyze" -> 4
      [] stage = "exercises" -> 5
      [] stage = "normalize" -> 6
      [] stage = "rename" -> 7
      [] stage \in {"hls", "hlsUpload", "fallback", "mp4"} -> 8
      [] stage = "validate" -> 9
      [] stage \in {"save", "topics"} -> 10
      [] stage = "write" -> 11

\* C29: processVideo runs its stages in the order extract audio,
\* transcribe, translate, analyze, generate exercises, normalize, rename,
\* package and upload, validate, insert, write JSON; a stage starts only
\* when every stage before it has run and succeeded, and after the first
\* stage that fails none runs: after a failure of an AI stage nothing has
\* been uploaded or inserted.
C29_StagesInOrder ==
    pv.pc # "idle" /\ pv.variant = "full" =>
        /\ pv.calls # <<>> => C29_StageRank(pv.calls[1]) = 1
        /\ \A i \in 1..Len(pv.calls) - 1 :
              LET a == C29_StageRank(pv.calls[i])
                  b == C29_StageRank(pv.calls[i + 1])
              IN b = a + 1 \/ (a = 8 /\ b = 8)
        /\ pv.failedAt # "none" =>
              /\ pv.pc \in {"finally", "threw"}
              /\ C29_StageRank(pv.calls[Len(pv.calls)])
                     = C29_FailedRank(pv.failedAt)
        /\ pv.failedAt \in {"transcribe", "translate", "analyze",
                            "exercises"} =>
              /\ pv.primaryUrl = "none" /\ pv.fallbackUrl = "none"
              /\ ~pv.contentRow /\ pv.topicRows = 0 /\ ~pv.written
              /\ "hlsDir" \notin pv.disk

C29_Witness ==
    /\ pv.variant = "full"
    /\ pv.pc = "threw"
    /\ pv.failedAt = "exercises"
    /\ pv.calls = <<"extractAudio", "transcribeAudio",
                    "translateTranscription", "analyzeText",
                    "generateExercises">>

\* The text line j of the batch has after a step of the retry loop: in
\* aligned while the loop goes on, in translations when the batch is over.
C30_TextAfter(j) ==
    IF tr'.pc = "line" /\ tr'.i = tr.i THEN tr'.aligned[j]
    ELSE tr'.translations[Offset(tr) + j].text

\* A step of the single-line retry of line tr.line.
C30_RetryStep ==
    tr.pc = "line" /\ tr' # tr =>
        \* the entry lacked Cyrillic, and no entry is retried twice
        /\ ~HasCyrillic(tr.aligned[tr.line])
        /\ \/ tr'.pc = "line" /\ tr'.i = tr.i /\ tr'.line > tr.line
              /\ ~HasCyrillic(tr'.aligned[tr'.line])
           \/ tr'.pc = "request" /\ tr'.i = tr.i + 1 /\ tr'.attempt = 1
           \/ tr'.pc = "returned"
        \* the batch neither fails nor loses an attempt
        /\ tr'.pc # "threw"
        /\ tr'.requests[tr.i] = tr.requests[tr.i]
        /\ tr'.failures[tr.i] = tr.failures[tr.i]
        /\ tr'.i = tr.i => tr'.attempt = tr.attempt
        \* the texts: a retry without Cyrillic text leaves the entry's
        \* text, and no other entry changes
        /\ \A j \in 1..Len(tr.aligned) :
              j # tr.line => C30_TextAfter(j) = tr.aligned[j]
        /\ \/ C30_TextAfter(tr.line) = tr.aligned[tr.line]
              /\ Offset(tr) + tr.line \in tr'.retried
           \/ HasCyrillic(C30_TextAfter(tr.line))
              /\ tr'.retried = tr.retried

\* C30: within the successful attempt of a batch the single-line retry is
\* invoked at most once for an aligned entry whose text lacks Cyrillic and
\* never for one whose text has Cyrillic; a retry that errors or returns
\* text without Cyrillic neither fails the batch nor uses up an attempt,
\* and the entry keeps the text it had.
C30_RetryOncePerLackingEntry == [][C30_RetryStep]_vars

\* The second line of a batch is up for its retry after the retry of the
\* first line gave no Cyrillic text, in the first attempt of the batch.
C30_Witness ==
    /\ tr.pc = "line"
    /\ tr.line = 2
    /\ Offset(tr) + 1 \in tr.retried
    /\ tr.requests[tr.i] = 1
    /\ ~HasCyrillic(tr.aligned[1])

\* C31: each chunk of the Translation translateTranscription returns
\* carries a sourceText, the text of the phrase chunk at its index.
C31_ChunksCarrySourceText ==
    tr.pc = "returned" =>
        \A i \in 1..Len(tr.result) :
            /\ "sourceText" \in DOMAIN tr.result[i]
            /\ tr.result[i].sourceText = tr.chunks[i].text

\* C32: every exercise of a list validateExercisesStructure accepts, of
\* any type, has 3 or 4 options; a list holding an exercise with fewer than
\* 3 or more than 4 options is rejected.
C32_OptionCountOk(exercises) ==
    \A i \in 1..Len(exercises) : Len(exercises[i].options) \in {3, 4}

C32_ThreeOrFourOptions ==
    val.fn = "validateExercisesStructure" =>
        /\ Len(val.results) >= 1 => C32_OptionCountOk(val.results[1])
        /\ Len(val.results) >= 1 \/ val.pc = "threw" =>
              (~C32_OptionCountOk(val.input) => val.results = <<>>)

\* C33: no value a validator returns holds a required string that is empty
\* after trimming: the text of a chunk of a transcription view, the
\* videoName and videoUrl of a ProcessedVideo, an option of an exercise.
C33_NoEmptyOption(exercises) ==
    \A i \in 1..Len(exercises) :
        \A j \in 1..Len(exercises[i].options) : exercises[i].options[j] # ""

C33_NoEmptyRequiredString ==
    \A k \in 1..Len(val.results) :
        /\ val.fn = "validateTranscriptionStructure" =>
              \A i \in 1..Len(val.results[k].chunks) :
                  val.results[k].chunks[i].text # ""
        /\ val.fn = "validateExercisesStructure" =>
              C33_NoEmptyOption(val.results[k])
        /\ val.fn = "validateProcessedVideo" =>
              /\ val.results[k].videoName # ""
              /\ val.results[k].videoUrl # ""
              /\ C33_NoEmptyOption(val.results[k].exercises)

\* C34: analyzeText on the transcript of an empty transcription (fullText
\* "") never returns an analysis, whatever the model answers.
C34_EmptyTranscriptFailsAnalysis ==
    llm.fn = "analyzeText" /\ llm.text = "" => llm.pc # "returned"

\* The words of every chunk are at most maxWords, and no word of a chunk
\* starts more than maxGapSeconds after the largest end of the words before
\* it in the chunk.
C35_ChunksBounded(chunks, o) ==
    \A i \in 1..Len(chunks) :
        LET words == chunks[i].words
        IN /\ Len(words) <= Max(Max(1, o.minWords), o.maxWords)
           /\ \A j \in 1..(Len(words) - 1) :
                 words[j + 1].start
                     - BufferEnd(SubSeq(words, 1, j), words[1].start)
                   <= o.maxGapSeconds

\* C35: no chunk of groupWordEntries holds more than maxWords words, none
\* holds two consecutive words with a gap above maxGapSeconds, also when it
\* has fewer than minWords words, and the last word ends the last chunk.
\* maxWords is the function's own value, Math.max(minWords,
\* overrides.maxWords).
C35_ChunksWithinLimits ==
    grp.pc = "returned" /\ grp.fn = "groupWordEntries" =>
        LET normalized == NormalizeWordEntries(grp.entries)
            last == grp.chunks[Len(grp.chunks)].words
        IN /\ C35_ChunksBounded(grp.chunks, grp.overrides)
           /\ normalized # <<>> =>
                 /\ grp.chunks # <<>>
                 /\ last # <<>>
                 /\ last[Len(last)] = normalized[Len(normalized)]

\* Three words, the second one after a gap: the first chunk is cut at the
\* gap below minWords, the second one is full at maxWords.
C35_Witness ==
    /\ grp.pc = "returned"
    /\ grp.fn = "groupWordEntries"
    /\ grp.overrides.minWords = 2
    /\ grp.overrides.maxGapSeconds = 0
    /\ Len(NormalizeWordEntries(grp.entries)) = 3
    /\ Len(grp.chunks) = 2
    /\ Len(grp.chunks[1].words) = 1
    /\ Len(grp.chunks[2].words) = 2
    /\ grp.chunks[2].words[1].start = grp.chunks[2].words[2].start

\* C36: the word view of buildTranscriptionVariants has one chunk for each
\* normalized word, in the order of the starts, with the word's text and
\* its [start, end], end >= start, as timestamp; for a single word the
\* phrase view and the word view are that one chunk.
C36_WordViewOneChunkPerWord ==
    grp.pc = "returned" /\ grp.fn = "buildTranscriptionVariants" =>
        LET normalized == NormalizeWordEntries(grp.entries)
        IN /\ Len(grp.wordChunks) = Len(normalized)
           /\ \A i \in 1..Len(grp.wordChunks) :
                 /\ grp.wordChunks[i].text = <<normalized[i].text>>
                 /\ grp.wordChunks[i].timestamp
                        = <<normalized[i].start, normalized[i].end>>
                 /\ grp.wordChunks[i].timestamp[2]
                        >= grp.wordChunks[i].timestamp[1]
           /\ \A i, j \in 1..Len(grp.wordChunks) :
                 i < j => grp.wordChunks[i].timestamp[1]
                              <= grp.wordChunks[j].timestamp[1]
           /\ Len(normalized) = 1 =>
                 /\ Len(grp.chunks) = 1
                 /\ grp.chunks = grp.wordChunks

\* Three words handed over out of start order, one of them with its end
\* before its start, which the phrase view puts into fewer chunks.
C36_Witness ==
    /\ grp.pc = "returned"
    /\ grp.fn = "buildTranscriptionVariants"
    /\ Len(grp.entries) = 3
    /\ grp.entries[1].start = 2
    /\ grp.entries[3].start = 0
    /\ Len(grp.wordChunks) = 3
    /\ grp.wordChunks[3].timestamp = <<2, 2>>
    /\ Len(grp.chunks) < 3

\* The delay due after failed attempt k of a batch with the error message.
C37_Expected(message, k) ==
    IF message \in {"429", "Resource exhausted"} THEN 30000 ELSE 300 * k

\* A step of translateTranscription with respect to the delays: a failed
\* attempt before the last goes into one delay, the last one into none; a
\* delay is followed by the next attempt; no attempt follows an attempt of
\* the same batch otherwise.
C37_Step ==
    /\ tr.pc = "request" /\ tr'.pc # "idle"
           /\ tr'.i = tr.i /\ tr'.failures[tr.i] > tr.failures[tr.i] =>
          IF tr.attempt < MAX_ATTEMPTS
          THEN tr'.pc = "delay" /\ tr'.attempt = tr.attempt
          ELSE tr'.pc = "threw" /\ tr'.waiting = 0
    /\ tr.pc = "delay" =>
          tr'.pc = "request" /\ tr'.attempt = tr.attempt + 1
              /\ tr'.i = tr.i /\ tr'.waiting = 0
    /\ tr.pc \notin {"idle", "start", "delay"} /\ tr'.pc # "idle"
           /\ tr'.i = tr.i =>
          tr'.attempt = tr.attempt

C39_ConfigRestored ==
    /\ rus.pc \in {"returned", "threw"} =>
          /\ rus.language = rus.before.language
          /\ rus.openaiModel = rus.before.openaiModel
    /\ rus.pc \notin {"idle", "transcribe"} /\ ~rus.mutated =>
          /\ rus.language = rus.before.language
          /\ rus.openaiModel = rus.before.openaiModel
    /\ rus.pc # "idle" =>
          \A s \in rus.seen : s[1] = "russian"

\* The call has thrown out of the loop after the transcriptions ran under
\* 'russian' and the model 'small' in place of 'english' and 'small.en'.
C39_Witness ==
    /\ rus.pc = "threw"
    /\ rus.mutated
    /\ rus.files = 2
    /\ rus.before = [language |-> "english", openaiModel |-> "small.en"]
    /\ rus.seen = {<<"russian", "small">>}

====
